---------------------------- MODULE Spec2Model ----------------------------
(***************************************************************************)
(* Model of the spreadsheet import pipeline of AgendaTaller Web            *)
(* (src/app_web.py): the cell normalizer, the header locator, the record   *)
(* segmenter, the entity resolver, the job materializer, the duplicate     *)
(* reconciler and the job handlers of the web layer that write Jobs.       *)
(*                                                                         *)
(* Text is modelled by TLA+ strings, handled character by character        *)
(* (Len, SubSeq, \o).  An optional value is the empty tuple << >> (None)   *)
(* or a one-element tuple <<v>>.  A date is the triple <<y, m, d>>; a      *)
(* nullable date is << >> or such a triple.  A nullable foreign key is 0   *)
(* (NULL) or a positive id.                                                *)
(***************************************************************************)
EXTENDS Integers, Sequences, FiniteSets, TLC

VARIABLES
    clients,      \* table clients: set of rows
    equipments,   \* table equipment: set of rows
    jobs,         \* table job: set of rows
    imp,          \* the ExcelImporter instance of the running import request
    lastOp,       \* the handler (or importer step) that made the last step
    prev,         \* history: the last finished import run
    seg,          \* the segmenter's frame while it walks one sheet
    session,      \* session['import_file']: the uploaded workbook awaiting confirmation
    conc,         \* the import runs that execute concurrently, one frame each
    call          \* the frame of one direct call of a helper: inputs and result

vars == <<clients, equipments, jobs, imp, lastOp, prev, seg, session, conc, call>>

-----------------------------------------------------------------------------
(* Optional values and small helpers *)

None == << >>

Some(v) == <<v>>

IsNone(o) == o = << >>

\* Python truthiness of an optional string: None and '' are falsy
Truthy(o) == o # << >> /\ o[1] # ""

\* an absent text rendered as a dash
OrEmptyDash(o) == IF Truthy(o) THEN o[1] ELSE "-"

\* `o or ''` on an optional string
OrEmpty(o) == IF Truthy(o) THEN o[1] ELSE ""

Max(S) == CHOOSE x \in S : \A y \in S : y <= x

Min(S) == CHOOSE x \in S : \A y \in S : x <= y

-----------------------------------------------------------------------------
(* Characters and strings *)

LowerAlpha == "abcdefghijklmnopqrstuvwxyz"

UpperAlpha == "ABCDEFGHIJKLMNOPQRSTUVWXYZ"

Digits == "0123456789"

CharAt(s, i) == SubSeq(s, i, i)

\* position of the one-character string c in alphabet a, 0 when absent
IndexIn(a, c) ==
    IF \E i \in 1..Len(a) : CharAt(a, i) = c
    THEN CHOOSE i \in 1..Len(a) : CharAt(a, i) = c
    ELSE 0

\* the upper-case letter of each lower-case letter
ToUpper ==
    [c \in {CharAt(LowerAlpha, i) : i \in 1..Len(LowerAlpha)} |->
        CharAt(UpperAlpha, IndexIn(LowerAlpha, c))]

\* the lower-case letter of each upper-case letter
ToLower ==
    [c \in {CharAt(UpperAlpha, i) : i \in 1..Len(UpperAlpha)} |->
        CharAt(LowerAlpha, IndexIn(UpperAlpha, c))]

UpperChar(c) == IF c \in DOMAIN ToUpper THEN ToUpper[c] ELSE c

LowerChar(c) == IF c \in DOMAIN ToLower THEN ToLower[c] ELSE c

RECURSIVE Upper(_)
\* str.upper()
Upper(s) == IF s = "" THEN "" ELSE UpperChar(Head(s)) \o Upper(Tail(s))

RECURSIVE Lower(_)
\* str.lower()
Lower(s) == IF s = "" THEN "" ELSE LowerChar(Head(s)) \o Lower(Tail(s))

IsSpace(c) == c \in {" ", "\n", "\t"}

RECURSIVE LStrip(_)
LStrip(s) == IF s # "" /\ IsSpace(Head(s)) THEN LStrip(Tail(s)) ELSE s

RECURSIVE RStrip(_)
RStrip(s) ==
    IF s # "" /\ IsSpace(CharAt(s, Len(s))) THEN RStrip(SubSeq(s, 1, Len(s) - 1)) ELSE s

\* str.strip()
Strip(s) == RStrip(LStrip(s))

\* `sub in s`
Contains(s, sub) ==
    \E i \in 1..(Len(s) - Len(sub) + 1) : SubSeq(s, i, i + Len(sub) - 1) = sub

RECURSIVE JoinStr(_, _)
\* sep.join(parts)
JoinStr(parts, sep) ==
    IF parts = << >> THEN ""
    ELSE IF Len(parts) = 1 THEN parts[1]
    ELSE parts[1] \o sep \o JoinStr(Tail(parts), sep)

RECURSIVE SplitOn(_, _)
\* the fields of s between occurrences of the one-character separator c
SplitOn(s, c) ==
    IF \E i \in 1..Len(s) : CharAt(s, i) = c
    THEN LET i == Min({j \in 1..Len(s) : CharAt(s, j) = c})
         IN  <<SubSeq(s, 1, i - 1)>> \o SplitOn(SubSeq(s, i + 1, Len(s)), c)
    ELSE <<s>>

RECURSIVE SplitWs(_)
\* str.split(): the maximal runs of non-whitespace characters
SplitWs(s) ==
    LET t == LStrip(s)
    IN  IF t = "" THEN << >>
        ELSE IF \E i \in 1..Len(t) : IsSpace(CharAt(t, i))
        THEN LET i == Min({j \in 1..Len(t) : IsSpace(CharAt(t, j))})
             IN  <<SubSeq(t, 1, i - 1)>> \o SplitWs(SubSeq(t, i, Len(t)))
        ELSE <<t>>

IsDigits(s) == s # "" /\ \A i \in 1..Len(s) : IndexIn(Digits, CharAt(s, i)) > 0

RECURSIVE NatOf(_)
\* int(s) for a string of digits
NatOf(s) ==
    IF s = "" THEN 0
    ELSE NatOf(SubSeq(s, 1, Len(s) - 1)) * 10 + (IndexIn(Digits, CharAt(s, Len(s))) - 1)

RECURSIVE NatStr(_)
\* str(n) for a natural number
NatStr(n) ==
    IF n < 10 THEN CharAt(Digits, n + 1) ELSE NatStr(n \div 10) \o CharAt(Digits, (n % 10) + 1)

\* n printed with at least two digits
Pad2(n) == IF n < 10 THEN "0" \o NatStr(n) ELSE NatStr(n)

-----------------------------------------------------------------------------
(* Dates: <<year, month, day>> *)

IsLeap(y) == (y % 4 = 0 /\ y % 100 # 0) \/ y % 400 = 0

DaysInMonth(y, m) ==
    IF m = 2 THEN (IF IsLeap(y) THEN 29 ELSE 28)
    ELSE IF m \in {4, 6, 9, 11} THEN 30 ELSE 31

ValidDate(y, m, d) == y >= 1 /\ m \in 1..12 /\ d >= 1 /\ d <= DaysInMonth(y, m)

NextDay(dt) ==
    IF dt[3] < DaysInMonth(dt[1], dt[2]) THEN <<dt[1], dt[2], dt[3] + 1>>
    ELSE IF dt[2] < 12 THEN <<dt[1], dt[2] + 1, 1>>
    ELSE <<dt[1] + 1, 1, 1>>

PrevDay(dt) ==
    IF dt[3] > 1 THEN <<dt[1], dt[2], dt[3] - 1>>
    ELSE IF dt[2] > 1 THEN <<dt[1], dt[2] - 1, DaysInMonth(dt[1], dt[2] - 1)>>
    ELSE <<dt[1] - 1, 12, 31>>

RECURSIVE AddDays(_, _)
\* date + timedelta(days=n)
AddDays(dt, n) ==
    IF n = 0 THEN dt
    ELSE IF n > 0 THEN AddDays(NextDay(dt), n - 1)
    ELSE AddDays(PrevDay(dt), n + 1)

\* order of dates (ORDER BY date_done)
DateLess(a, b) ==
    \/ a[1] < b[1]
    \/ a[1] = b[1] /\ a[2] < b[2]
    \/ a[1] = b[1] /\ a[2] = b[2] /\ a[3] < b[3]

\* str() of a datetime cell as pandas hands it over (a Timestamp at midnight)
DateStr(dt) == NatStr(dt[1]) \o "-" \o Pad2(dt[2]) \o "-" \o Pad2(dt[3]) \o " 00:00:00"

-----------------------------------------------------------------------------
(* Spreadsheet cells as pandas yields them: NaN, a string, or a datetime *)

NaN == [t |-> "nan", s |-> "", d |-> << >>]

StrCell(x) == [t |-> "str", s |-> x, d |-> << >>]

DateCell(x) == [t |-> "date", s |-> "", d |-> x]

\* pd.notna(cell)
NotNa(cell) == cell.t # "nan"

\* str(cell)
CellStr(cell) == IF cell.t = "date" THEN DateStr(cell.d) ELSE cell.s

\* ExcelImporter._clean_text
CleanText(cell) ==
    IF ~NotNa(cell) THEN None
    ELSE LET text == Strip(CellStr(cell))
         IN  IF text # "" /\ Lower(text) \notin {"nan", "none", ""} THEN Some(text) ELSE None

\* a strptime numeric field: lo..hi written with minw..maxw digits
Field(s, minw, maxw, lo, hi) ==
    IF IsDigits(s) /\ Len(s) >= minw /\ Len(s) <= maxw /\ NatOf(s) >= lo /\ NatOf(s) <= hi
    THEN Some(NatOf(s)) ELSE None

\* the date of fields y, m, d when each parsed and the day exists
MkDate(y, m, d) ==
    IF ~IsNone(y) /\ ~IsNone(m) /\ ~IsNone(d) /\ ValidDate(y[1], m[1], d[1])
    THEN <<y[1], m[1], d[1]>> ELSE None

\* datetime.strptime(s, '%Y-%m-%d').date(), None on ValueError
ParseYmd(s) ==
    LET f == SplitOn(s, "-")
    IN  IF Len(f) = 3
        THEN MkDate(Field(f[1], 4, 4, 1, 9999), Field(f[2], 1, 2, 1, 12), Field(f[3], 1, 2, 1, 31))
        ELSE None

\* datetime.strptime(s, '%d/%m/%Y').date(), None on ValueError
ParseDmy(s) ==
    LET f == SplitOn(s, "/")
    IN  IF Len(f) = 3
        THEN MkDate(Field(f[3], 4, 4, 1, 9999), Field(f[2], 1, 2, 1, 12), Field(f[1], 1, 2, 1, 31))
        ELSE None

\* datetime.strptime(s, '%m/%d/%Y').date(), None on ValueError
ParseMdy(s) ==
    LET f == SplitOn(s, "/")
    IN  IF Len(f) = 3
        THEN MkDate(Field(f[3], 4, 4, 1, 9999), Field(f[1], 1, 2, 1, 12), Field(f[2], 1, 2, 1, 31))
        ELSE None

\* datetime.strptime(s, '%Y-%m-%d %H:%M:%S').date(), None on ValueError
ParseYmdHms(s) ==
    LET p == SplitWs(s)
    IN  IF Len(p) = 2 /\ ~Contains(s, "\n") /\ ~Contains(s, "\t")
        THEN LET t == SplitOn(p[2], ":")
             IN  IF /\ Len(t) = 3
                    /\ ~IsNone(Field(t[1], 1, 2, 0, 23))
                    /\ ~IsNone(Field(t[2], 1, 2, 0, 59))
                    /\ ~IsNone(Field(t[3], 1, 2, 0, 59))
                 THEN ParseYmd(p[1]) ELSE None
        ELSE None

\* a parser that tries month/day before day/month
ParseDateMonthFirst(cell) ==
    IF ~NotNa(cell) THEN None
    ELSE IF cell.t = "date" THEN cell.d
    ELSE LET date_str == Strip(CellStr(cell))
         IN  IF ~IsNone(ParseYmd(date_str)) THEN ParseYmd(date_str)
             ELSE IF ~IsNone(ParseMdy(date_str)) THEN ParseMdy(date_str)
             ELSE IF ~IsNone(ParseDmy(date_str)) THEN ParseDmy(date_str)
             ELSE ParseYmdHms(date_str)

\* ExcelImporter._parse_date
ParseDate(cell) ==
    IF ~NotNa(cell) THEN None
    ELSE IF cell.t = "date" THEN cell.d
    ELSE LET date_str == Strip(CellStr(cell))
         IN  IF ~IsNone(ParseYmd(date_str)) THEN ParseYmd(date_str)
             ELSE IF ~IsNone(ParseDmy(date_str)) THEN ParseDmy(date_str)
             ELSE IF ~IsNone(ParseMdy(date_str)) THEN ParseMdy(date_str)
             ELSE ParseYmdHms(date_str)

-----------------------------------------------------------------------------
(* Sheet header locator.  A sheet (the DataFrame df) is a sequence of rows,  *)
(* a row a sequence of cells; rows are numbered from 1 here where pandas     *)
(* numbers them from 0.                                                      *)

RECURSIVE JoinUpperCells(_)
\* ' '.join([str(cell).upper() for cell in row if pd.notna(cell)])
JoinUpperCells(row) ==
    LET keep == SelectSeq(row, NotNa)
    IN  IF keep = << >> THEN ""
        ELSE IF Len(keep) = 1 THEN Upper(CellStr(keep[1]))
        ELSE Upper(CellStr(keep[1])) \o " " \o JoinUpperCells(Tail(keep))

\* a header test that takes either keyword group alone
IsHeaderRowEither(row) ==
    LET row_str == JoinUpperCells(row)
    IN  Contains(row_str, "EQUIPO") \/ Contains(row_str, "FECHA") \/ Contains(row_str, "MANO")

\* the test of _find_header_row on one row
IsHeaderRow(row) ==
    LET row_str == JoinUpperCells(row)
    IN  Contains(row_str, "EQUIPO") /\ (Contains(row_str, "FECHA") \/ Contains(row_str, "MANO"))

RECURSIVE FindHeaderFrom(_, _)
\* the loop of _find_header_row from row idx on
FindHeaderFrom(df, idx) ==
    IF idx > Len(df) THEN None
    ELSE IF IsHeaderRow(df[idx]) THEN Some(idx)
    ELSE FindHeaderFrom(df, idx + 1)

\* ExcelImporter._find_header_row
FindHeaderRow(df) == FindHeaderFrom(df, 1)

-----------------------------------------------------------------------------
(* Record segmenter *)

\* a description whose sections are joined by a single newline
BuildDescriptionNoBlank(repuestos, mano_obra) ==
    LET labor == IF mano_obra # "" THEN <<"MANO DE OBRA:\n" \o mano_obra>> ELSE << >>
        parts == IF repuestos # "" THEN <<"REPUESTOS:\n" \o repuestos>> ELSE << >>
    IN  JoinStr(labor \o parts, "\n")

\* a description that puts the parts section first
BuildDescriptionPartsFirst(repuestos, mano_obra) ==
    LET labor == IF mano_obra # "" THEN <<"MANO DE OBRA:\n" \o mano_obra>> ELSE << >>
        parts == IF repuestos # "" THEN <<"REPUESTOS:\n" \o repuestos>> ELSE << >>
    IN  JoinStr(parts \o labor, "\n\n")

\* ExcelImporter._build_description
BuildDescription(repuestos, mano_obra) ==
    LET labor == IF mano_obra # "" THEN <<"MANO DE OBRA:\n" \o mano_obra>> ELSE << >>
        parts == IF repuestos # "" THEN <<"REPUESTOS:\n" \o repuestos>> ELSE << >>
    IN  JoinStr(labor \o parts, "\n\n")

\* the locals of _extract_equipment_data before the first row
SegInit ==
    [current_equipment |-> None, current_date |-> None, current_work |-> None, data |-> << >>]

\* a finalization test that takes any open record
HasContentAnyOpen(current_work) == ~IsNone(current_work)

\* `current_work and (current_work['repuestos'] or current_work['mano_obra'])`
HasContent(current_work) ==
    ~IsNone(current_work) /\ (current_work[1].repuestos # "" \/ current_work[1].mano_obra # "")

\* a finalized record whose description is left empty
FinalizedNoDescription(w) ==
    [client |-> w.client, equipment |-> w.equipment, date |-> w.date,
     repuestos |-> w.repuestos, mano_obra |-> w.mano_obra, description |-> ""]

\* the finalized record: current_work with its description set
Finalized(w) ==
    [client |-> w.client, equipment |-> w.equipment, date |-> w.date,
     repuestos |-> w.repuestos, mano_obra |-> w.mano_obra,
     description |-> BuildDescription(w.repuestos, w.mano_obra)]

\* the four cells of a row as the loop body reads them
RowEquipo(row) == IF Len(row) > 0 /\ NotNa(row[1]) THEN CleanText(row[1]) ELSE None

RowFecha(row) == IF Len(row) > 1 /\ NotNa(row[2]) THEN ParseDate(row[2]) ELSE None

RowRepuestos(row) == IF Len(row) > 2 /\ NotNa(row[3]) THEN CleanText(row[3]) ELSE None

RowManoObra(row) == IF Len(row) > 3 /\ NotNa(row[4]) THEN CleanText(row[4]) ELSE None

\* an accumulation that joins with a blank instead of a newline
AccumulateBlank(old, text) == IF old # "" THEN old \o " " \o text ELSE text

\* an accumulation that keeps the last text only
AccumulateReplace(old, text) == text

\* `old += "\n" + text` when old is non-empty, else `old = text`
Accumulate(old, text) == IF old # "" THEN old \o "\n" \o text ELSE text

\* an equipment label that, once set, is never replaced
CurrentEquipmentFirst(st, equipo) ==
    IF Truthy(st.current_equipment) THEN st.current_equipment ELSE equipo

\* `if equipo: current_equipment = equipo`: current_equipment after it
CurrentEquipment(st, equipo) == IF Truthy(equipo) THEN equipo ELSE st.current_equipment

\* one iteration of the row loop of _extract_equipment_data
SegStep(st, row, client_name) ==
    LET equipo    == RowEquipo(row)
        fecha     == RowFecha(row)
        repuestos == RowRepuestos(row)
        mano_obra == RowManoObra(row)
        cur_eq    == CurrentEquipment(st, equipo)
    IN  IF ~IsNone(fecha) /\ Truthy(cur_eq)
        THEN [current_equipment |-> cur_eq,
              current_date      |-> fecha,
              current_work      |-> Some([client    |-> client_name,
                                          equipment |-> cur_eq[1],
                                          date      |-> fecha,
                                          repuestos |-> OrEmpty(repuestos),
                                          mano_obra |-> OrEmpty(mano_obra)]),
              data              |-> IF HasContent(st.current_work)
                                    THEN Append(st.data, Finalized(st.current_work[1]))
                                    ELSE st.data]
        ELSE IF (Truthy(repuestos) \/ Truthy(mano_obra)) /\ ~IsNone(st.current_work)
        THEN LET w == st.current_work[1]
             IN  [st EXCEPT
                    !.current_equipment = cur_eq,
                    !.current_work = Some([w EXCEPT
                        !.repuestos = IF Truthy(repuestos)
                                      THEN Accumulate(w.repuestos, repuestos[1]) ELSE @,
                        !.mano_obra = IF Truthy(mano_obra)
                                      THEN Accumulate(w.mano_obra, mano_obra[1]) ELSE @])]
        ELSE [st EXCEPT !.current_equipment = cur_eq]

\* an end of the loop that forgets the record still open
SegFinishDrop(st) == st.data

\* the code after the row loop: the last open record is finalized
SegFinish(st) ==
    IF HasContent(st.current_work)
    THEN Append(st.data, Finalized(st.current_work[1]))
    ELSE st.data

RECURSIVE SegLoop(_, _, _, _)
\* the row loop from row idx on
SegLoop(st, df, client_name, idx) ==
    IF idx > Len(df) THEN st
    ELSE SegLoop(SegStep(st, df[idx], client_name), df, client_name, idx + 1)

\* ExcelImporter._extract_equipment_data
ExtractEquipmentData(df, client_name, header_row) ==
    SegFinish(SegLoop(SegInit, df, client_name, header_row + 1))

\* df.empty: no rows or no columns
DfEmpty(df) == df = << >> \/ \A i \in 1..Len(df) : df[i] = << >>

\* ExcelImporter._parse_sheet
ParseSheet(sheet) ==
    IF DfEmpty(sheet.rows) THEN << >>
    ELSE IF IsNone(FindHeaderRow(sheet.rows)) THEN << >>
    ELSE ExtractEquipmentData(sheet.rows, sheet.name, FindHeaderRow(sheet.rows)[1])

RECURSIVE ParseSheets(_)
\* the sheet loop of parse_excel: blank names and 'Hoja5' are skipped
ParseSheets(sheets) ==
    IF sheets = << >> THEN << >>
    ELSE (IF Strip(Head(sheets).name) # "" /\ Head(sheets).name # "Hoja5"
          THEN ParseSheet(Head(sheets)) ELSE << >>) \o ParseSheets(Tail(sheets))

-----------------------------------------------------------------------------
(* Values of the variables that a specification leaves at rest *)

EmptySummary ==
    [clients_created |-> 0, equipments_created |-> 0, equipments_updated |-> 0,
     jobs_created |-> 0, errors |-> << >>]

\* no import request is running
ImpIdle ==
    [phase |-> "idle", wb |-> "", parsed_data |-> << >>, k |-> 0, summary |-> EmptySummary,
     response |-> "none",
     \* history of the run: per record handled, the equipment the resolver returned
     \* (0: None), whether it created it, and the storage call that raised
     resolved |-> << >>, created |-> << >>, faults |-> << >>,
     \* whether the run found the store empty
     fromEmpty |-> FALSE,
     \* the number of storage faults so far, in this run and before
     nfaults |-> 0]

\* no finished run
NoRun == [valid |-> FALSE, parsed_data |-> << >>, jobs |-> {}, njobs |-> 0]

\* no finished run is remembered: neither the run before the running one
\* (valid, parsed_data, jobs, njobs) nor the last one that returned (last)
PrevNone == [valid |-> FALSE, parsed_data |-> << >>, jobs |-> {}, njobs |-> 0, last |-> NoRun]

\* the value of lastOp: the handler that ran and what it returned
Op(name, ret) == [op |-> name, ret |-> ret]

\* no import run executes concurrently with another
ConcIdle == [runs |-> << >>, raced |-> FALSE]

\* no helper is being called directly
CallIdle == [pc |-> "idle"]

\* the segmenter at rest.  Besides the locals of _parse_sheet and of the row
\* loop (rows, header_row, idx, st) it keeps a history: read, the rows the loop
\* has read; open and openEmpty, the row that opened the current record and
\* whether its parts and labor cells were both empty; meta, the same of every
\* emitted record with upto, the last row read before it was emitted
SegIdle ==
    [pc |-> "idle", name |-> "", rows |-> << >>, header_row |-> None, idx |-> 0,
     st |-> SegInit, read |-> {}, open |-> 0, openEmpty |-> FALSE, meta |-> << >>]

-----------------------------------------------------------------------------
(* The sheets the segmenter is run on *)

\* greatest number of data rows below the preamble of a generated sheet
MaxRows == 3

HeaderFull == <<StrCell("EQUIPO"), StrCell("FECHA"), StrCell("REPUESTOS"), StrCell("MANO DE OBRA")>>

HeaderLabor == <<StrCell("Equipo"), NaN, NaN, StrCell("Mano de obra")>>

TitleRow == <<StrCell("Planilla de equipos"), NaN, NaN, NaN>>

FechaRow == <<NaN, StrCell("Fecha"), NaN, NaN>>

\* the rows of a sheet down to and including its header row, if it has one
Preambles ==
    { <<HeaderFull>>, <<FechaRow, HeaderLabor>>, <<HeaderLabor, HeaderFull>>,
      <<TitleRow, FechaRow>>, << >> }

D1 == <<2024, 1, 10>>

D2 == <<2024, 2, 1>>

RowFull == <<StrCell("Bomba X1"), StrCell("2024-01-10"), StrCell("Filtro"), StrCell("Revision")>>

RowCont == <<NaN, NaN, StrCell("Correa"), NaN>>

RowBareDate == <<StrCell(" "), DateCell(D2), StrCell("None"), NaN>>

RowEquipCont == <<StrCell("Motor"), NaN, NaN, StrCell(" Ajuste ")>>

RowBadDate == <<NaN, StrCell("10-2024"), StrCell("Junta"), StrCell("Ajuste")>>

RowSlashDate == <<NaN, StrCell("01/02/2024"), StrCell("nan"), StrCell("Cambio")>>

RowEquipDate == <<StrCell("Motor"), DateCell(D2), NaN, NaN>>

DataRows ==
    { RowFull, RowCont, RowBareDate, RowEquipCont, RowBadDate, RowSlashDate, RowEquipDate }

RECURSIVE SeqsUpTo(_, _)
\* the sequences over S of length at most n
SeqsUpTo(S, n) ==
    IF n = 0 THEN { << >> }
    ELSE LET shorter == SeqsUpTo(S, n - 1)
         IN  shorter \cup { Append(q, x) : q \in {r \in shorter : Len(r) = n - 1}, x \in S }

\* a DataFrame has one width: every row cut to w columns
Narrow(rows, w) == [i \in 1..Len(rows) |-> SubSeq(rows[i], 1, w)]

SheetWidths == {3, 4}

Sheets ==
    { [name |-> "Acme Corp", rows |-> Narrow(p \o d, w)] :
        p \in Preambles, d \in SeqsUpTo(DataRows, MaxRows), w \in SheetWidths }

-----------------------------------------------------------------------------
(* SpecSeg: _parse_sheet on one sheet, the row loop taken one row a step *)

InitSeg ==
    /\ clients = {} /\ equipments = {} /\ jobs = {}
    /\ imp = ImpIdle /\ lastOp = Op("init", 0) /\ prev = PrevNone
    /\ session = None /\ conc = ConcIdle /\ call = CallIdle
    /\ \E sheet \in Sheets :
          seg = [SegIdle EXCEPT !.pc = "header", !.name = sheet.name, !.rows = sheet.rows]

\* _parse_sheet up to the call of _extract_equipment_data
SegFindHeader ==
    /\ seg.pc = "header"
    /\ LET h == FindHeaderRow(seg.rows)
       IN  IF DfEmpty(seg.rows) \/ IsNone(h)
           THEN seg' = [seg EXCEPT !.pc = "done"]
           ELSE seg' = [seg EXCEPT !.pc = "rows", !.header_row = h, !.idx = h[1] + 1]
    /\ lastOp' = Op("find_header", 0)
    /\ UNCHANGED <<clients, equipments, jobs, imp, prev, session, conc, call>>

\* whether the row opens a record: its date parses while an equipment label is current
Opens(st, row) ==
    ~IsNone(RowFecha(row)) /\ (Truthy(RowEquipo(row)) \/ Truthy(st.current_equipment))

\* one iteration of the row loop
SegRow ==
    /\ seg.pc = "rows"
    /\ seg.idx <= Len(seg.rows)
    /\ LET row == seg.rows[seg.idx]
           st2 == SegStep(seg.st, row, seg.name)
           emits == Len(st2.data) > Len(seg.st.data)
       IN  seg' = [seg EXCEPT
                !.st = st2,
                !.idx = @ + 1,
                !.read = @ \cup {seg.idx},
                !.meta = IF emits THEN Append(@, [open |-> seg.open, upto |-> seg.idx - 1,
                                         openEmpty |-> seg.openEmpty])
                         ELSE @,
                !.open = IF Opens(seg.st, row) THEN seg.idx ELSE @,
                !.openEmpty = IF Opens(seg.st, row)
                              THEN ~Truthy(RowRepuestos(row)) /\ ~Truthy(RowManoObra(row))
                              ELSE @]
    /\ lastOp' = Op("row", 0)
    /\ UNCHANGED <<clients, equipments, jobs, imp, prev, session, conc, call>>

\* the end of the row loop: the open record is finalized and the list returned
SegReturn ==
    /\ seg.pc = "rows"
    /\ seg.idx > Len(seg.rows)
    /\ LET out == SegFinish(seg.st)
       IN  seg' = [seg EXCEPT
                !.pc = "done",
                !.st = [@ EXCEPT !.data = out],
                !.meta = IF Len(out) > Len(seg.st.data)
                         THEN Append(@, [open |-> seg.open, upto |-> seg.idx - 1,
                                         openEmpty |-> seg.openEmpty])
                         ELSE @]
    /\ lastOp' = Op("return", 0)
    /\ UNCHANGED <<clients, equipments, jobs, imp, prev, session, conc, call>>

NextSeg == SegFindHeader \/ SegRow \/ SegReturn

SpecSeg == InitSeg /\ [][NextSeg]_vars

-----------------------------------------------------------------------------
(* The entity store.  A table is the set of its rows; a new row takes the   *)
(* id after the greatest one in the table (SQLite's INTEGER PRIMARY KEY),   *)
(* and a lookup that matches several rows yields the one of least id.       *)

Ids(table) == {r.id : r \in table}

NextId(table) == IF table = {} THEN 1 ELSE Max(Ids(table)) + 1

Row(table, id) == CHOOSE r \in table : r.id = id

\* a Client lookup that never finds one
FindClientNone(cs, name) == 0

\* Client.get(Client.nombre == name): the id found, 0 for DoesNotExist
FindClient(cs, name) ==
    IF \E c \in cs : c.nombre = name THEN Min({c.id : c \in {x \in cs : x.nombre = name}}) ELSE 0

\* an equipment lookup on the brand instead of the serial
FindEquipmentByBrand(es, equipment_name) ==
    IF \E e \in es : e.marca = equipment_name
    THEN Min({e.id : e \in {x \in es : x.marca = equipment_name}})
    ELSE 0

\* Equipment.get(Equipment.n_serie == equipment_name): the id found, 0 for DoesNotExist
FindEquipment(es, equipment_name) ==
    IF \E e \in es : e.n_serie = equipment_name
    THEN Min({e.id : e \in {x \in es : x.n_serie = equipment_name}})
    ELSE 0

\* a Job lookup that never finds one
FindJobNone(js, equipment, date) == 0

\* Job.select().where((Job.equipment == equipment) & (Job.date_done == date)).first()
FindJob(js, equipment, date) ==
    IF \E j \in js : j.equipment = equipment /\ j.date_done = date
    THEN Min({j.id : j \in {x \in js : x.equipment = equipment /\ x.date_done = date}})
    ELSE 0

\* datetime.now().year at import time
CurrentYear == 2024

\* ExcelImporter._extract_brand
ExtractBrand(equipment_name) ==
    LET parts == SplitWs(equipment_name)
    IN  IF Len(parts) > 0 THEN parts[1] ELSE "Sin especificar"

\* a model that keeps the label's text after the first blank as it is
ExtractModelRest(equipment_name) ==
    LET parts == SplitOn(equipment_name, " ")
    IN  IF Len(parts) > 1 THEN JoinStr(Tail(parts), " ") ELSE "Sin especificar"

\* ExcelImporter._extract_model
ExtractModel(equipment_name) ==
    LET parts == SplitWs(equipment_name)
    IN  IF Len(parts) > 1 THEN JoinStr(Tail(parts), " ") ELSE "Sin especificar"

\* a client resolver that looks up and creates under the name as given
CreateOrGetClientUnstripped(cs, summary, client_name, failed) ==
    IF client_name = "" \/ Strip(client_name) = ""
    THEN [client |-> 0, clients |-> cs, summary |-> summary]
    ELSE IF failed
    THEN [client |-> 0, clients |-> cs, summary |-> summary]
    ELSE LET found == FindClient(cs, client_name)
         IN  IF found # 0
             THEN [client |-> found, clients |-> cs, summary |-> summary]
             ELSE [client  |-> NextId(cs),
                   clients |-> cs \cup {[id |-> NextId(cs), nombre |-> client_name,
                        notes |-> Some("Cliente creado automáticamente desde importación Excel")]},
                   summary |-> [summary EXCEPT !.clients_created = @ + 1]]

\* ExcelImporter._create_or_get_client; failed: the storage call raised
CreateOrGetClient(cs, summary, client_name, failed) ==
    IF client_name = "" \/ Strip(client_name) = ""
    THEN [client |-> 0, clients |-> cs, summary |-> summary]
    ELSE IF failed
    THEN [client |-> 0, clients |-> cs, summary |-> summary]
    ELSE LET name == Strip(client_name)
             found == FindClient(cs, name)
         IN  IF found # 0
             THEN [client |-> found, clients |-> cs, summary |-> summary]
             ELSE [client  |-> NextId(cs),
                   clients |-> cs \cup {[id |-> NextId(cs), nombre |-> name,
                        notes |-> Some("Cliente creado automáticamente desde importación Excel")]},
                   summary |-> [summary EXCEPT !.clients_created = @ + 1]]

\* resolvers that differ from the importer's on a serial hit: "renote" rewrites
\* the brand, model and notes of the Equipment found, "relink" links it to the
\* record's client whatever its link, "count_linked" counts an update only
\* when it linked the Equipment
EquipmentResolver(cs, es, summary, record, fault, variant) ==
    LET equipment_name == record.equipment
        client_name    == record.client
        rc    == CreateOrGetClient(cs, summary, client_name, fault = "client")
        found == FindEquipment(es, equipment_name)
        old   == Row(es, found)
        link  == rc.client # 0 /\ (old.client = 0 \/ variant = "relink")
        linked == IF link THEN [old EXCEPT !.client = rc.client,
                                           !.propietario = Some(client_name)]
                  ELSE old
        new   == IF variant = "renote"
                 THEN [linked EXCEPT !.marca = ExtractBrand(equipment_name),
                                     !.modelo = ExtractModel(equipment_name),
                                     !.notes = Some("Importado desde Excel - Cliente: "
                                                    \o client_name)]
                 ELSE linked
    IN  IF fault = "equipment"
        THEN [equipment |-> 0, created |-> FALSE, clients |-> rc.clients, equipments |-> es,
              summary |-> rc.summary]
        ELSE IF found # 0
        THEN [equipment  |-> found,
              created    |-> FALSE,
              clients    |-> rc.clients,
              equipments |-> (es \ {old}) \cup {new},
              summary    |-> IF variant = "count_linked" /\ ~link THEN rc.summary
                             ELSE [rc.summary EXCEPT !.equipments_updated = @ + 1]]
        ELSE [equipment  |-> NextId(es),
              created    |-> TRUE,
              clients    |-> rc.clients,
              equipments |-> es \cup {[id |-> NextId(es),
                                       marca |-> ExtractBrand(equipment_name),
                                       modelo |-> ExtractModel(equipment_name),
                                       anio |-> CurrentYear,
                                       n_serie |-> equipment_name,
                                       propietario |-> Some(client_name),
                                       client |-> rc.client,
                                       notes |-> Some("Importado desde Excel - Cliente: "
                                                      \o client_name)]},
              summary    |-> [rc.summary EXCEPT !.equipments_created = @ + 1]]

CreateOrUpdateEquipmentRenote(cs, es, summary, record, fault) ==
    EquipmentResolver(cs, es, summary, record, fault, "renote")

CreateOrUpdateEquipmentRelink(cs, es, summary, record, fault) ==
    EquipmentResolver(cs, es, summary, record, fault, "relink")

CreateOrUpdateEquipmentCountLinked(cs, es, summary, record, fault) ==
    EquipmentResolver(cs, es, summary, record, fault, "count_linked")

\* ExcelImporter._create_or_update_equipment.  fault names the storage call
\* that raised while this record was handled: "client", "equipment" or none.
CreateOrUpdateEquipment(cs, es, summary, record, fault) ==
    LET equipment_name == record.equipment
        client_name    == record.client
        rc    == CreateOrGetClient(cs, summary, client_name, fault = "client")
        found == FindEquipment(es, equipment_name)
    IN  IF fault = "equipment"
        THEN [equipment |-> 0, created |-> FALSE, clients |-> rc.clients, equipments |-> es,
              summary |-> rc.summary]
        ELSE IF found # 0
        THEN [equipment  |-> found,
              created    |-> FALSE,
              clients    |-> rc.clients,
              equipments |-> IF Row(es, found).client = 0 /\ rc.client # 0
                             THEN (es \ {Row(es, found)}) \cup
                                  {[Row(es, found) EXCEPT !.client = rc.client,
                                                         !.propietario = Some(client_name)]}
                             ELSE es,
              summary    |-> [rc.summary EXCEPT !.equipments_updated = @ + 1]]
        ELSE [equipment  |-> NextId(es),
              created    |-> TRUE,
              clients    |-> rc.clients,
              equipments |-> es \cup {[id |-> NextId(es),
                                       marca |-> ExtractBrand(equipment_name),
                                       modelo |-> ExtractModel(equipment_name),
                                       anio |-> CurrentYear,
                                       n_serie |-> equipment_name,
                                       propietario |-> Some(client_name),
                                       client |-> rc.client,
                                       notes |-> Some("Importado desde Excel - Cliente: "
                                                      \o client_name)]},
              summary    |-> [rc.summary EXCEPT !.equipments_created = @ + 1]]

\* a materializer that creates a Job for every record
CreateJobAlwaysNew(js, summary, equipment, record, failed) ==
    IF failed THEN [jobs |-> js, summary |-> summary]
    ELSE [jobs |-> js \cup {[id |-> NextId(js),
                             equipment |-> equipment,
                             date_done |-> record.date,
                             description |-> record.description,
                             budget |-> 0,
                             next_service_days |-> None,
                             next_service_date |-> None,
                             notes |-> Some("Importado desde Excel - Cliente: "
                                            \o record.client)]},
          summary |-> [summary EXCEPT !.jobs_created = @ + 1]]

\* a materializer that leaves a Job found alone and counts no Job it creates
CreateJobUncounted(js, summary, equipment, record, failed) ==
    IF failed \/ FindJob(js, equipment, record.date) # 0
    THEN [jobs |-> js, summary |-> summary]
    ELSE [jobs |-> CreateJobAlwaysNew(js, summary, equipment, record, failed).jobs,
          summary |-> summary]

\* a materializer that rewrites the whole Job it found, as if creating it
CreateJobRewrite(js, summary, equipment, record, failed) ==
    LET existing == FindJob(js, equipment, record.date)
        made == [id |-> IF existing # 0 THEN existing ELSE NextId(js),
                 equipment |-> equipment,
                 date_done |-> record.date,
                 description |-> record.description,
                 budget |-> 0,
                 next_service_days |-> None,
                 next_service_date |-> None,
                 notes |-> Some("Importado desde Excel - Cliente: " \o record.client)]
    IN  IF failed THEN [jobs |-> js, summary |-> summary]
        ELSE IF existing # 0
        THEN [jobs |-> (js \ {Row(js, existing)}) \cup {made}, summary |-> summary]
        ELSE [jobs |-> js \cup {made},
              summary |-> [summary EXCEPT !.jobs_created = @ + 1]]

\* ExcelImporter._create_job; failed: the storage call raised
CreateJob(js, summary, equipment, record, failed) ==
    LET existing == FindJob(js, equipment, record.date)
    IN  IF failed THEN [jobs |-> js, summary |-> summary]
        ELSE IF existing # 0
        THEN [jobs |-> IF Row(js, existing).description # record.description
                       THEN (js \ {Row(js, existing)}) \cup
                            {[Row(js, existing) EXCEPT
                                !.description = record.description,
                                !.notes = Some("Actualizado desde Excel - Cliente: "
                                               \o record.client)]}
                       ELSE js,
              summary |-> summary]
        ELSE [jobs |-> js \cup {[id |-> NextId(js),
                                 equipment |-> equipment,
                                 date_done |-> record.date,
                                 description |-> record.description,
                                 budget |-> 0,
                                 next_service_days |-> None,
                                 next_service_date |-> None,
                                 notes |-> Some("Importado desde Excel - Cliente: "
                                                \o record.client)]},
              summary |-> [summary EXCEPT !.jobs_created = @ + 1]]

-----------------------------------------------------------------------------
(* The import request: import_excel_confirm and import_to_database *)

\* the message import_to_database adds for a record whose handling raised
RecordError(record, e) == "Error importando registro " \o record.equipment \o ": " \o e

\* a record loop that handles each record in a transaction of its own and
\* rolls it back when a storage call raised
ImportOneAtomic(cs, es, js, summary, record, fault) ==
    LET re == CreateOrUpdateEquipment(cs, es, summary, record, fault)
        rj == CreateJob(js, re.summary, re.equipment, record, FALSE)
    IN  IF fault \in {"equipment", "job"}
        THEN [clients |-> cs, equipments |-> es, jobs |-> js,
              equipment |-> re.equipment, created |-> FALSE, summary |-> summary]
        ELSE [clients |-> re.clients, equipments |-> re.equipments, jobs |-> rj.jobs,
              equipment |-> re.equipment, created |-> re.created, summary |-> rj.summary]

\* the body of the record loop of import_to_database for one record.  Both
\* helpers catch every exception themselves and return None, so nothing
\* reaches the handler of the loop: raised is FALSE on every path.
ImportOne(cs, es, js, summary, record, fault) ==
    LET re == CreateOrUpdateEquipment(cs, es, summary, record, fault)
        rj == IF re.equipment # 0
              THEN CreateJob(js, re.summary, re.equipment, record, fault = "job")
              ELSE [jobs |-> js, summary |-> re.summary]
        raised == FALSE
    IN  [clients |-> re.clients, equipments |-> re.equipments, jobs |-> rj.jobs,
         equipment |-> re.equipment, created |-> re.created,
         summary |-> IF raised
                     THEN [rj.summary EXCEPT !.errors = Append(@, RecordError(record, fault))]
                     ELSE rj.summary]

\* the workbooks uploaded to the import
Workbooks ==
    [ acme  |-> << [name |-> "Acme Corp", rows |-> <<HeaderFull, RowFull, RowCont>>] >>,
      acme2 |-> << [name |-> "Hoja5", rows |-> <<HeaderFull, RowFull, RowCont>>],
                   [name |-> "Acme Corp", rows |-> <<TitleRow, HeaderFull, RowFull>>] >>,
      twice |-> << [name |-> " ", rows |-> <<HeaderFull, RowFull>>],
                   [name |-> "Acme Corp",
                    rows |-> <<HeaderFull, RowFull,
                               <<NaN, StrCell("10/01/2024"), StrCell("Correa"), NaN>>>>] >>,
      beta  |-> << [name |-> "Beta",
                    rows |-> <<HeaderLabor,
                               <<StrCell("Motor"), DateCell(D2), NaN, StrCell("Ajuste")>>,
                               RowFull,
                               <<StrCell("Motor"), DateCell(D1), StrCell("Aceite"), NaN>>>>] >>,
      gamma |-> << [name |-> "Gamma",
                    rows |-> <<HeaderFull, RowFull,
                               <<StrCell("Grupo  E  3"), DateCell(D2), StrCell("Aceite"), NaN>>>>] >>,
      notes |-> << [name |-> "Notas", rows |-> <<TitleRow, RowFull>>] >> ]

\* parse_excel on each workbook: the records of its sheets, in sheet order
ParseExcel == [wb \in DOMAIN Workbooks |-> ParseSheets(Workbooks[wb])]

\* the storage calls that may raise while one record is handled
Faults == {"none", "client", "equipment", "job"}

\* greatest number of storage faults in a behaviour
MaxFaults == 1

NoFaults(run) == \A i \in 1..Len(run.faults) : run.faults[i] = "none"

\* what C1 compares of the Job table
JobView(js) == {<<j.equipment, j.date_done, j.description>> : j \in js}

\* what the handlers of the import answer: the HTTP status, whether the body
\* has an 'error' key, which 'summary' it has (the importer's four counts and
\* error list, the preview's totals, or none) and whether it has 'details'
\* (the importer's error list alone)
Responses ==
    [ none         |-> [code |-> 0,   error |-> FALSE, summary |-> "none",    details |-> FALSE],
      preview      |-> [code |-> 200, error |-> FALSE, summary |-> "preview", details |-> FALSE],
      success      |-> [code |-> 200, error |-> FALSE, summary |-> "import",  details |-> FALSE],
      cancelled    |-> [code |-> 200, error |-> FALSE, summary |-> "none",    details |-> FALSE],
      parse_error  |-> [code |-> 400, error |-> TRUE,  summary |-> "none",    details |-> TRUE],
      no_data      |-> [code |-> 400, error |-> TRUE,  summary |-> "none",    details |-> FALSE],
      no_file      |-> [code |-> 400, error |-> TRUE,  summary |-> "none",    details |-> FALSE],
      import_error |-> [code |-> 500, error |-> TRUE,  summary |-> "none",    details |-> TRUE] ]

\* whether openpyxl.load_workbook returns (TRUE) or raises (FALSE)
Loads == {TRUE, FALSE}

\* the text of the exception load_workbook raises
LoadError == "File is not a zip file"

\* a parse_excel that swallows the failure to load and returns True
ParseExcelCallSwallow(frame, wb, loaded) ==
    IF loaded
    THEN [importer |-> [frame EXCEPT !.wb = wb, !.parsed_data = ParseExcel[wb]], ok |-> TRUE]
    ELSE [importer |-> [frame EXCEPT !.wb = wb,
                          !.summary.errors = Append(@, "Error parseando Excel: " \o LoadError)],
          ok |-> TRUE]

\* parse_excel: the importer after it, and what it returned
ParseExcelCall(frame, wb, loaded) ==
    IF loaded
    THEN [importer |-> [frame EXCEPT !.wb = wb, !.parsed_data = ParseExcel[wb]], ok |-> TRUE]
    ELSE [importer |-> [frame EXCEPT !.wb = wb,
                          !.summary.errors = Append(@, "Error parseando Excel: " \o LoadError)],
          ok |-> FALSE]

\* a new ExcelImporter in the running request
NewImporter ==
    [ImpIdle EXCEPT !.fromEmpty = (clients = {} /\ equipments = {} /\ jobs = {}),
                    !.nfaults = imp.nfaults]

\* the import run that just returned, as the next run will find the store
FinishedRun ==
    IF NoFaults(imp)
    THEN [valid |-> TRUE, parsed_data |-> imp.parsed_data,
          jobs |-> JobView(jobs), njobs |-> Cardinality(jobs)]
    ELSE NoRun

\* POST /import/excel: the upload is parsed and previewed; the session keeps
\* the uploaded file only when it gave records
ImportProcess(wbs, loads) ==
    /\ imp.phase \in {"idle", "done"}
    /\ \E wb \in wbs, loaded \in loads :
         LET r == ParseExcelCall(NewImporter, wb, loaded)
         IN  IF ~r.ok
             THEN /\ imp' = [r.importer EXCEPT !.phase = "done", !.response = "parse_error"]
                  /\ UNCHANGED session
             ELSE IF r.importer.parsed_data = << >>
             THEN /\ imp' = [r.importer EXCEPT !.phase = "done", !.response = "no_data"]
                  /\ UNCHANGED session
             ELSE /\ imp' = [r.importer EXCEPT !.phase = "done", !.response = "preview"]
                  /\ session' = Some(wb)
    /\ lastOp' = Op("import_excel_process", Responses[imp'.response].code)
    /\ UNCHANGED <<clients, equipments, jobs, prev, seg, conc, call>>

\* import_excel_confirm up to the record loop: the workbook of the session is
\* parsed again and import_to_database entered.  (The uploaded file is removed
\* only together with the session entry, so the 'Archivo no encontrado' answer
\* does not occur.)
ImportConfirm(wbs, loads) ==
    /\ imp.phase \in {"idle", "done"}
    /\ IF IsNone(session)
       THEN /\ imp' = [NewImporter EXCEPT !.phase = "done", !.response = "no_file"]
            /\ lastOp' = Op("import_excel_confirm", 400)
       ELSE /\ session[1] \in wbs
            /\ \E loaded \in loads :
                 LET r == ParseExcelCall(NewImporter, session[1], loaded)
                 IN  IF ~r.ok
                     THEN /\ imp' = [r.importer EXCEPT
                                       !.phase = "done", !.response = "parse_error"]
                          /\ lastOp' = Op("import_excel_confirm", 400)
                     ELSE IF r.importer.parsed_data = << >>
                     THEN /\ imp' = [r.importer EXCEPT
                                       !.phase = "done", !.response = "import_error",
                                       !.summary.errors =
                                            Append(@, "No hay datos para importar")]
                          /\ lastOp' = Op("import_excel_confirm", 500)
                     ELSE /\ imp' = [r.importer EXCEPT !.phase = "records", !.k = 1]
                          /\ lastOp' = Op("import_begin", 0)
    /\ prev' = [valid |-> prev.last.valid, parsed_data |-> prev.last.parsed_data,
                jobs |-> prev.last.jobs, njobs |-> prev.last.njobs, last |-> prev.last]
    /\ UNCHANGED <<clients, equipments, jobs, seg, session, conc, call>>

\* a cancel that answers and leaves the pending file in the session
ImportCancelKeep ==
    /\ imp.phase \in {"idle", "done"}
    /\ imp' = [NewImporter EXCEPT !.phase = "done", !.response = "cancelled"]
    /\ lastOp' = Op("import_excel_cancel", 200)
    /\ UNCHANGED <<clients, equipments, jobs, prev, seg, session, conc, call>>

\* POST /import/excel/cancel
ImportCancel ==
    /\ imp.phase \in {"idle", "done"}
    /\ imp' = [NewImporter EXCEPT !.phase = "done", !.response = "cancelled"]
    /\ session' = None
    /\ lastOp' = Op("import_excel_cancel", 200)
    /\ UNCHANGED <<clients, equipments, jobs, prev, seg, conc, call>>

\* one iteration of the record loop of import_to_database
ImportRecord(faults) ==
    /\ imp.phase = "records"
    /\ imp.k <= Len(imp.parsed_data)
    /\ \E fault \in faults :
         /\ fault # "none" => imp.nfaults < MaxFaults
         /\ LET r == ImportOne(clients, equipments, jobs, imp.summary,
                               imp.parsed_data[imp.k], fault)
            IN  /\ clients' = r.clients
                /\ equipments' = r.equipments
                /\ jobs' = r.jobs
                /\ imp' = [imp EXCEPT !.k = @ + 1, !.summary = r.summary,
                                      !.resolved = Append(@, r.equipment),
                                      !.created = Append(@, r.created),
                                      !.faults = Append(@, fault),
                                      !.nfaults = IF fault # "none" THEN @ + 1 ELSE @]
    /\ lastOp' = Op("import_record", 0)
    /\ UNCHANGED <<prev, seg, session, conc, call>>

\* the end of the record loop: import_to_database returns True and
\* import_excel_confirm answers with the summary
ImportReturn ==
    /\ imp.phase = "records"
    /\ imp.k > Len(imp.parsed_data)
    /\ imp' = [imp EXCEPT !.phase = "done", !.response = "success"]
    /\ session' = None
    /\ prev' = [prev EXCEPT !.last = FinishedRun]
    /\ lastOp' = Op("import_excel_confirm", 200)
    /\ UNCHANGED <<clients, equipments, jobs, seg, conc, call>>

-----------------------------------------------------------------------------
(* The web handlers that write Jobs and Equipment by hand *)

\* greatest number of Jobs and of Equipment at which a handler still adds one,
\* where only the handlers and the reconciler run
MaxJobs == 3

MaxEquipments == 2

\* the same where import runs fill the store as well
MaxHandJobs == 1

MaxHandEquipments == 1

\* what the forms send: date_done, next_service_days ('' or a number), description
FormDates == {D1, D2}

FormDays == {None, Some(0), Some(2)}

FormDescriptions == {"Service"}

\* `date_done + timedelta(days=next_days) if next_days else None`
NextServiceDate(date_done, next_days) ==
    IF ~IsNone(next_days) /\ next_days[1] # 0 THEN AddDays(date_done, next_days[1]) ELSE None

\* the Job.create call of trabajo_new and trabajo_new_global
NewJob(js, equipo_id, date_done, description, next_days) ==
    js \cup {[id |-> NextId(js),
              equipment |-> equipo_id,
              date_done |-> date_done,
              description |-> description,
              budget |-> 0,
              next_service_days |-> next_days,
              next_service_date |-> NextServiceDate(date_done, next_days),
              notes |-> None]}

\* a request other than the import: the answered import request is history
Touched == imp' = [ImpIdle EXCEPT !.nfaults = imp.nfaults] /\ prev' = PrevNone

\* POST /trabajo/nuevo/<equipo_id>
TrabajoNew(dates, days, cap) ==
    /\ imp.phase \in {"idle", "done"}
    /\ Cardinality(jobs) < cap
    /\ \E e \in Ids(equipments), d \in dates, desc \in FormDescriptions, nd \in days :
         jobs' = NewJob(jobs, e, d, desc, nd)
    /\ lastOp' = Op("trabajo_new", 0)
    /\ Touched
    /\ UNCHANGED <<clients, equipments, seg, session, conc, call>>

\* POST /trabajo/nuevo
TrabajoNewGlobal(dates, days, cap) ==
    /\ imp.phase \in {"idle", "done"}
    /\ Cardinality(jobs) < cap
    /\ \E e \in Ids(equipments), d \in dates, desc \in FormDescriptions, nd \in days :
         jobs' = NewJob(jobs, e, d, desc, nd)
    /\ lastOp' = Op("trabajo_new_global", 0)
    /\ Touched
    /\ UNCHANGED <<clients, equipments, seg, session, conc, call>>

\* POST /trabajo/<trabajo_id>/editar
TrabajoEdit(dates, days) ==
    /\ imp.phase \in {"idle", "done"}
    /\ \E j \in jobs, d \in dates, desc \in FormDescriptions, nd \in days :
         jobs' = (jobs \ {j}) \cup
                 {[j EXCEPT !.date_done = d,
                            !.description = desc,
                            !.budget = 0,
                            !.next_service_days = nd,
                            !.next_service_date = NextServiceDate(d, nd),
                            !.notes = None]}
    /\ lastOp' = Op("trabajo_edit", 0)
    /\ Touched
    /\ UNCHANGED <<clients, equipments, seg, session, conc, call>>

\* POST /equipo/nuevo, for an equipment entered with no client and no owner
EquipoNew(cap) ==
    /\ imp.phase \in {"idle", "done"}
    /\ Cardinality(equipments) < cap
    /\ equipments' = equipments \cup
          {[id |-> NextId(equipments), marca |-> "Bomba", modelo |-> "X1", anio |-> CurrentYear,
            n_serie |-> "Bomba X1", propietario |-> None, client |-> 0, notes |-> None]}
    /\ lastOp' = Op("equipo_new", 0)
    /\ Touched
    /\ UNCHANGED <<clients, jobs, seg, session, conc, call>>

-----------------------------------------------------------------------------
(* Duplicate reconciler *)

\* an order that puts the greater id first within a key
JobBeforeIdDesc(a, b) ==
    \/ a.equipment < b.equipment
    \/ a.equipment = b.equipment /\ DateLess(a.date_done, b.date_done)
    \/ a.equipment = b.equipment /\ a.date_done = b.date_done /\ a.id > b.id

\* ORDER BY equipment, date_done, id
JobBefore(a, b) ==
    \/ a.equipment < b.equipment
    \/ a.equipment = b.equipment /\ DateLess(a.date_done, b.date_done)
    \/ a.equipment = b.equipment /\ a.date_done = b.date_done /\ a.id < b.id

RECURSIVE OrderedJobs(_)
\* Job.select().order_by(Job.equipment, Job.date_done, Job.id)
OrderedJobs(js) ==
    IF js = {} THEN << >>
    ELSE LET first == CHOOSE j \in js : \A k \in js \ {j} : JobBefore(j, k)
         IN  <<first>> \o OrderedJobs(js \ {first})

RECURSIVE JobsToRemoveEveryOther(_, _, _)
\* a scan that forgets the key after each duplicate it marks, so that of
\* three Jobs with one key it removes the second only
JobsToRemoveEveryOther(ordered, i, current_key) ==
    IF i > Len(ordered) THEN {}
    ELSE LET job == ordered[i]
             key == <<job.equipment, job.date_done>>
         IN  IF Some(key) = current_key
             THEN {job} \cup JobsToRemoveEveryOther(ordered, i + 1, None)
             ELSE JobsToRemoveEveryOther(ordered, i + 1, Some(key))

RECURSIVE JobsToRemove(_, _, _)
\* the scan of clean_duplicate_jobs from position i on, current_key being the
\* key of the last job kept (None before the first)
JobsToRemove(ordered, i, current_key) ==
    IF i > Len(ordered) THEN {}
    ELSE LET job == ordered[i]
             key == <<job.equipment, job.date_done>>
         IN  IF Some(key) = current_key
             THEN {job} \cup JobsToRemove(ordered, i + 1, current_key)
             ELSE JobsToRemove(ordered, i + 1, Some(key))

\* POST /admin/clean-duplicates: clean_duplicate_jobs
CleanDuplicates ==
    /\ imp.phase \in {"idle", "done"}
    /\ LET jobs_to_remove == JobsToRemove(OrderedJobs(jobs), 1, None)
       IN  /\ jobs' = jobs \ jobs_to_remove
           /\ lastOp' = Op("clean_duplicate_jobs", Cardinality(jobs_to_remove))
    /\ Touched
    /\ UNCHANGED <<clients, equipments, seg, session, conc, call>>

-----------------------------------------------------------------------------
(* Spec: sequential import runs of the workbooks, storage faults included,  *)
(* on a store that the handlers fill by hand between the runs               *)

\* the workbooks uploaded where storage faults and hand-made rows are included
SpecWorkbooks == {"acme", "twice", "beta", "notes"}

Init ==
    /\ clients = {} /\ equipments = {} /\ jobs = {}
    /\ imp = ImpIdle /\ lastOp = Op("init", 0) /\ prev = PrevNone
    /\ seg = SegIdle /\ session = None /\ conc = ConcIdle /\ call = CallIdle

Next ==
    \/ ImportProcess(SpecWorkbooks, {TRUE})
    \/ ImportConfirm(SpecWorkbooks, {TRUE})
    \/ ImportRecord(Faults)
    \/ ImportReturn
    \/ EquipoNew(MaxHandEquipments)
    \/ TrabajoNew({D1}, {None}, MaxHandJobs)
    \/ TrabajoNewGlobal({D1}, {None}, MaxHandJobs)

Spec == Init /\ [][Next]_vars

-----------------------------------------------------------------------------
(* SpecRequests: the three requests of the import (upload and preview,      *)
(* confirm, cancel) on every workbook, the workbook failing to load and     *)
(* storage faults included                                                  *)

\* the workbooks uploaded where the workbook may fail to load
RequestWorkbooks == {"acme", "acme2", "twice", "beta", "notes"}

InitRequests == Init

NextRequests ==
    \/ ImportProcess(RequestWorkbooks, Loads)
    \/ ImportConfirm(RequestWorkbooks, Loads)
    \/ ImportRecord(Faults)
    \/ ImportReturn
    \/ ImportCancel

SpecRequests == InitRequests /\ [][NextRequests]_vars

-----------------------------------------------------------------------------
(* SpecLabels: import runs of workbooks whose sheets name different clients *)
(* for one equipment label and whose labels have one, two and three tokens, *)
(* storage faults included                                                  *)

LabelWorkbooks == {"acme", "beta", "gamma"}

NextLabels ==
    \/ ImportProcess(LabelWorkbooks, {TRUE})
    \/ ImportConfirm(LabelWorkbooks, {TRUE})
    \/ ImportRecord(Faults)
    \/ ImportReturn

SpecLabels == Init /\ [][NextLabels]_vars

-----------------------------------------------------------------------------
(* SpecConc: two import runs that execute at the same time, as two requests *)
(* served by two threads or workers do.  Every storage call is one step:    *)
(* the database serializes the statements, and nothing (no transaction, no  *)
(* unique index) ties a lookup to the create or save that follows it.       *)

Runners == {1, 2}

ConcWorkbooks == {"acme", "twice", "beta"}

\* the Equipment rows the runs may find: none, or one entered by hand with no
\* client
ConcEquipments ==
    { {},
      {[id |-> 1, marca |-> "Bomba", modelo |-> "X1", anio |-> CurrentYear,
        n_serie |-> "Bomba X1", propietario |-> None, client |-> 0, notes |-> None]} }

\* the importer of a run before its first record, with the locals of the
\* helpers: client (0: None) and the equipment and job instances read
ConcFrame(wb) ==
    [pc |-> "client_get", parsed_data |-> ParseExcel[wb], k |-> 1,
     client |-> 0, equipment |-> None, job |-> None, summary |-> EmptySummary]

\* the record loop moves to the next record
Advance(f) ==
    [f EXCEPT !.k = @ + 1,
              !.pc = IF f.k + 1 <= Len(f.parsed_data) THEN "client_get" ELSE "done",
              !.client = 0, !.equipment = None, !.job = None]

\* the calls between a lookup that missed and the create that follows it
PendingCreate == {"client_create", "equipment_create", "job_create"}

\* a step of run p: the others' frames stay, and the step is a race when
\* another run stands between its lookup and its create
ConcStep(p, f) ==
    conc' = [runs  |-> [conc.runs EXCEPT ![p] = f],
             raced |-> conc.raced \/ \E q \in Runners \ {p} : conc.runs[q].pc \in PendingCreate]

ConcRecord(p) == conc.runs[p].parsed_data[conc.runs[p].k]

ConcUnchanged == UNCHANGED <<imp, prev, seg, session, call>>

InitConc ==
    /\ clients = {} /\ jobs = {}
    /\ equipments \in ConcEquipments
    /\ imp = ImpIdle /\ lastOp = Op("init", 0) /\ prev = PrevNone
    /\ seg = SegIdle /\ session = None /\ call = CallIdle
    /\ \E a \in ConcWorkbooks, b \in ConcWorkbooks :
          conc = [runs |-> [p \in Runners |-> ConcFrame(IF p = 1 THEN a ELSE b)],
                  raced |-> FALSE]

\* _create_or_get_client: Client.get
ConcClientGet ==
    \E p \in Runners :
        LET f     == conc.runs[p]
            name  == Strip(ConcRecord(p).client)
            found == FindClient(clients, name)
        IN  /\ f.pc = "client_get"
            /\ ConcStep(p, IF name = "" THEN [f EXCEPT !.pc = "equipment_get"]
                           ELSE IF found # 0
                           THEN [f EXCEPT !.pc = "equipment_get", !.client = found]
                           ELSE [f EXCEPT !.pc = "client_create"])
            /\ lastOp' = Op("client_get", p)
            /\ UNCHANGED <<clients, equipments, jobs>>
            /\ ConcUnchanged

\* _create_or_get_client: Client.create
ConcClientCreate ==
    \E p \in Runners :
        LET f == conc.runs[p]
        IN  /\ f.pc = "client_create"
            /\ clients' = clients \cup
                  {[id |-> NextId(clients), nombre |-> Strip(ConcRecord(p).client),
                    notes |-> Some("Cliente creado automáticamente desde importación Excel")]}
            /\ ConcStep(p, [f EXCEPT !.pc = "equipment_get", !.client = NextId(clients),
                                     !.summary.clients_created = @ + 1])
            /\ lastOp' = Op("client_create", p)
            /\ UNCHANGED <<equipments, jobs>>
            /\ ConcUnchanged

\* _create_or_update_equipment: Equipment.get
ConcEquipmentGet ==
    \E p \in Runners :
        LET f     == conc.runs[p]
            found == FindEquipment(equipments, ConcRecord(p).equipment)
        IN  /\ f.pc = "equipment_get"
            /\ ConcStep(p, IF found = 0 THEN [f EXCEPT !.pc = "equipment_create"]
                           ELSE IF Row(equipments, found).client = 0 /\ f.client # 0
                           THEN [f EXCEPT !.pc = "equipment_save",
                                          !.equipment = Some(Row(equipments, found))]
                           ELSE [f EXCEPT !.pc = "job_get",
                                          !.equipment = Some(Row(equipments, found)),
                                          !.summary.equipments_updated = @ + 1])
            /\ lastOp' = Op("equipment_get", p)
            /\ UNCHANGED <<clients, equipments, jobs>>
            /\ ConcUnchanged

\* _create_or_update_equipment: equipment.save() of the instance read
ConcEquipmentSave ==
    \E p \in Runners :
        LET f     == conc.runs[p]
            saved == [f.equipment[1] EXCEPT !.client = f.client,
                                            !.propietario = Some(ConcRecord(p).client)]
        IN  /\ f.pc = "equipment_save"
            /\ equipments' = {e \in equipments : e.id # saved.id} \cup {saved}
            /\ ConcStep(p, [f EXCEPT !.pc = "job_get", !.equipment = Some(saved),
                                     !.summary.equipments_updated = @ + 1])
            /\ lastOp' = Op("equipment_save", p)
            /\ UNCHANGED <<clients, jobs>>
            /\ ConcUnchanged

\* _create_or_update_equipment: Equipment.create
ConcEquipmentCreate ==
    \E p \in Runners :
        LET f == conc.runs[p]
            r == ConcRecord(p)
            created == [id |-> NextId(equipments),
                        marca |-> ExtractBrand(r.equipment),
                        modelo |-> ExtractModel(r.equipment),
                        anio |-> CurrentYear,
                        n_serie |-> r.equipment,
                        propietario |-> Some(r.client),
                        client |-> f.client,
                        notes |-> Some("Importado desde Excel - Cliente: " \o r.client)]
        IN  /\ f.pc = "equipment_create"
            /\ equipments' = equipments \cup {created}
            /\ ConcStep(p, [f EXCEPT !.pc = "job_get", !.equipment = Some(created),
                                     !.summary.equipments_created = @ + 1])
            /\ lastOp' = Op("equipment_create", p)
            /\ UNCHANGED <<clients, jobs>>
            /\ ConcUnchanged

\* _create_job: the select of the existing job
ConcJobGet ==
    \E p \in Runners :
        LET f     == conc.runs[p]
            r     == ConcRecord(p)
            found == FindJob(jobs, f.equipment[1].id, r.date)
        IN  /\ f.pc = "job_get"
            /\ ConcStep(p, IF found = 0 THEN [f EXCEPT !.pc = "job_create"]
                           ELSE IF Row(jobs, found).description # r.description
                           THEN [f EXCEPT !.pc = "job_save", !.job = Some(Row(jobs, found))]
                           ELSE Advance(f))
            /\ lastOp' = Op("job_get", p)
            /\ UNCHANGED <<clients, equipments, jobs>>
            /\ ConcUnchanged

\* _create_job: existing_job.save() of the instance read
ConcJobSave ==
    \E p \in Runners :
        LET f     == conc.runs[p]
            r     == ConcRecord(p)
            saved == [f.job[1] EXCEPT
                        !.description = r.description,
                        !.notes = Some("Actualizado desde Excel - Cliente: " \o r.client)]
        IN  /\ f.pc = "job_save"
            /\ jobs' = {j \in jobs : j.id # saved.id} \cup {saved}
            /\ ConcStep(p, Advance(f))
            /\ lastOp' = Op("job_save", p)
            /\ UNCHANGED <<clients, equipments>>
            /\ ConcUnchanged

\* _create_job: Job.create
ConcJobCreate ==
    \E p \in Runners :
        LET f == conc.runs[p]
            r == ConcRecord(p)
        IN  /\ f.pc = "job_create"
            /\ jobs' = jobs \cup {[id |-> NextId(jobs),
                                   equipment |-> f.equipment[1].id,
                                   date_done |-> r.date,
                                   description |-> r.description,
                                   budget |-> 0,
                                   next_service_days |-> None,
                                   next_service_date |-> None,
                                   notes |-> Some("Importado desde Excel - Cliente: "
                                                  \o r.client)]}
            /\ ConcStep(p, [Advance(f) EXCEPT !.summary.jobs_created = @ + 1])
            /\ lastOp' = Op("job_create", p)
            /\ UNCHANGED <<clients, equipments>>
            /\ ConcUnchanged

NextConc ==
    \/ ConcClientGet \/ ConcClientCreate
    \/ ConcEquipmentGet \/ ConcEquipmentSave \/ ConcEquipmentCreate
    \/ ConcJobGet \/ ConcJobSave \/ ConcJobCreate

SpecConc == InitConc /\ [][NextConc]_vars

-----------------------------------------------------------------------------
(* SpecCalls: one direct call of a helper of the importer on each of its    *)
(* inputs: _build_description, _parse_date on text cells, and               *)
(* _create_or_get_client on small Client tables                             *)

\* parts and labor texts
Texts == {"", " ", "Filtro", "Filtro\nCorrea", "Revision", "Ajuste"}

\* the texts of date cells
DateTexts ==
    { "2024-01-10", " 2024-02-01 ", "01/02/2024", "13/02/2024", "02/13/2024", "12/31/2024",
      "29/02/2024", "29/02/2023", "31/04/2024", "02/30/2024", "2024-01-10 08:30:00",
      "2024-01-10 25:00:00", "10-2024", "" }

\* sheet names, blank ones and ones with blanks around them included
ClientNames == {"", " ", "Acme Corp", " Acme Corp ", "acme corp", "Gamma"}

AutoNote == Some("Cliente creado automáticamente desde importación Excel")

\* the Client tables the resolver is called on
ClientTables ==
    { {},
      {[id |-> 1, nombre |-> "Acme Corp", notes |-> None]},
      {[id |-> 1, nombre |-> "Beta", notes |-> None],
       [id |-> 2, nombre |-> "Acme Corp", notes |-> AutoNote]},
      {[id |-> 1, nombre |-> "Acme Corp", notes |-> None],
       [id |-> 3, nombre |-> "Acme Corp", notes |-> None]} }

\* a call about to be made: the helper f, its arguments a and b, whether the
\* storage call raises, the Client table before it, and no result yet
CallFrame(f, a, b, failed) ==
    [pc |-> "ready", f |-> f, a |-> a, b |-> b, failed |-> failed, cs |-> clients,
     out_s |-> "", out_d |-> None, out_n |-> 0, count |-> 0]

InitCalls ==
    /\ equipments = {} /\ jobs = {}
    /\ imp = ImpIdle /\ lastOp = Op("init", 0) /\ prev = PrevNone
    /\ seg = SegIdle /\ session = None /\ conc = ConcIdle
    /\ \/ /\ clients = {}
          /\ \E a \in Texts, b \in Texts : call = CallFrame("_build_description", a, b, FALSE)
       \/ /\ clients = {}
          /\ \E a \in DateTexts : call = CallFrame("_parse_date", a, "", FALSE)
       \/ /\ clients \in ClientTables
          /\ \E a \in ClientNames, failed \in BOOLEAN :
                call = CallFrame("_create_or_get_client", a, "", failed)

\* self._build_description(repuestos, mano_obra)
CallBuildDescription ==
    /\ call.pc = "ready" /\ call.f = "_build_description"
    /\ call' = [call EXCEPT !.pc = "returned", !.out_s = BuildDescription(call.a, call.b)]
    /\ lastOp' = Op("_build_description", 0)
    /\ UNCHANGED <<clients, equipments, jobs, imp, prev, seg, session, conc>>

\* self._parse_date(date_value) on a text cell
CallParseDate ==
    /\ call.pc = "ready" /\ call.f = "_parse_date"
    /\ call' = [call EXCEPT !.pc = "returned", !.out_d = ParseDate(StrCell(call.a))]
    /\ lastOp' = Op("_parse_date", 0)
    /\ UNCHANGED <<clients, equipments, jobs, imp, prev, seg, session, conc>>

\* self._create_or_get_client(client_name) of a new importer
CallCreateOrGetClient ==
    /\ call.pc = "ready" /\ call.f = "_create_or_get_client"
    /\ LET r == CreateOrGetClient(clients, EmptySummary, call.a, call.failed)
       IN  /\ clients' = r.clients
           /\ call' = [call EXCEPT !.pc = "returned", !.out_n = r.client,
                                   !.count = r.summary.clients_created]
    /\ lastOp' = Op("_create_or_get_client", 0)
    /\ UNCHANGED <<equipments, jobs, imp, prev, seg, session, conc>>

NextCalls == CallBuildDescription \/ CallParseDate \/ CallCreateOrGetClient

SpecCalls == InitCalls /\ [][NextCalls]_vars

-----------------------------------------------------------------------------
(* SpecJobs: the Job handlers with every form input, and fault-free import  *)
(* runs of a workbook that repeats an (equipment, date) pair and of one     *)
(* that does not                                                            *)

InitJobs == Init

NextJobs ==
    \/ EquipoNew(MaxHandEquipments)
    \/ TrabajoNew(FormDates, FormDays, MaxHandJobs)
    \/ TrabajoNewGlobal(FormDates, FormDays, MaxHandJobs)
    \/ TrabajoEdit(FormDates, FormDays)
    \/ (Cardinality(jobs) <= MaxHandJobs /\ ImportProcess({"twice", "acme"}, {TRUE}))
    \/ ImportConfirm({"twice", "acme"}, {TRUE})
    \/ ImportRecord({"none"})
    \/ ImportReturn

SpecJobs == InitJobs /\ [][NextJobs]_vars

-----------------------------------------------------------------------------
(* SpecClean: the reconciler on the Job tables the handlers build           *)

InitClean == Init

NextClean ==
    \/ EquipoNew(MaxEquipments)
    \/ TrabajoNew(FormDates, {None}, MaxJobs)
    \/ TrabajoNewGlobal(FormDates, {None}, MaxJobs)
    \/ CleanDuplicates

SpecClean == InitClean /\ [][NextClean]_vars

-----------------------------------------------------------------------------
(* Properties of the import runs (Spec) *)

\* no two Jobs share an (equipment, date_done) pair
NoDupJobs(js) ==
    \A a \in js, b \in js : a.equipment = b.equipment /\ a.date_done = b.date_done => a.id = b.id

\* the steps of an import run
ImportOps == {"import_begin", "import_record", "import_excel_confirm"}

\* the run that just ended repeated, with no storage fault in either, the run
\* before it on the store that run left
SecondRun ==
    /\ imp.phase = "done" /\ imp.response = "success" /\ NoFaults(imp)
    /\ prev.valid /\ prev.parsed_data = imp.parsed_data

\* C1: idempotent import.  When the same parsed record list is imported twice
\* in a row (no storage call raising in either run), the second run leaves the
\* Jobs, taken as (equipment, date, description), and their number as the first
\* run left them, and reports jobs_created = 0.
C1_IdempotentImport ==
    SecondRun =>
        /\ JobView(jobs) = prev.jobs
        /\ Cardinality(jobs) = prev.njobs
        /\ imp.summary.jobs_created = 0

\* a second run of a list of several records, one of them a repeated pair
C1_Witness ==
    /\ SecondRun
    /\ Len(imp.parsed_data) = 2
    /\ imp.parsed_data[1].date = imp.parsed_data[2].date
    /\ imp.parsed_data[1].equipment = imp.parsed_data[2].equipment
    /\ Cardinality(jobs) >= 2

\* C2: an import step never makes two Jobs share an (equipment, date_done)
\* pair: if no two Jobs share one before a step of an import run, none do after
\* it, whatever the record list (lists repeating a pair included).
C2_ImportKeepsKeysUnique ==
    [][(lastOp'.op \in ImportOps /\ NoDupJobs(jobs)) => NoDupJobs(jobs')]_vars

\* the second record of a list repeating an (equipment, date) pair was handled
\* and the Jobs still have distinct pairs
C2_Witness ==
    /\ lastOp.op = "import_record" /\ imp.k = 3
    /\ imp.parsed_data[1].date = imp.parsed_data[2].date
    /\ imp.parsed_data[1].equipment = imp.parsed_data[2].equipment
    /\ imp.resolved[1] # 0 /\ imp.resolved[2] # 0
    /\ imp.faults = <<"none", "none">>
    /\ jobs # {} /\ NoDupJobs(jobs)


\* the records handled so far in the running or answered import
Handled == 1..Len(imp.resolved)

\* C4: within one import batch, two records with the same equipment label are
\* resolved to the same Equipment (for every resolution that did not fail on a
\* storage fault), and at most one Equipment is created per label.
C4_OneEquipmentPerLabel ==
    \A i \in Handled, j \in Handled :
        imp.parsed_data[i].equipment = imp.parsed_data[j].equipment =>
            /\ (imp.faults[i] # "equipment" /\ imp.faults[j] # "equipment") =>
                   (imp.resolved[i] # 0 /\ imp.resolved[i] = imp.resolved[j])
            /\ (imp.created[i] /\ imp.created[j]) => i = j

\* a batch resolved one label twice, creating the Equipment the first time
C4_Witness ==
    \E i \in Handled, j \in Handled :
        /\ i < j
        /\ imp.parsed_data[i].equipment = imp.parsed_data[j].equipment
        /\ imp.created[i] /\ ~imp.created[j]
        /\ imp.resolved[i] = imp.resolved[j] /\ imp.resolved[i] # 0

\* C5: when resolving the equipment or materializing the job of a record
\* raises, the summary's error list holds a message with that record's
\* equipment label, and the later records of the batch are still handled.
C5_FailureIsReported ==
    \A i \in Handled :
        imp.faults[i] \in {"equipment", "job"} =>
            /\ \E m \in 1..Len(imp.summary.errors) :
                  Contains(imp.summary.errors[m], imp.parsed_data[i].equipment)
            /\ imp.phase = "done" => Len(imp.resolved) = Len(imp.parsed_data)

\* C10: the workbook with the one sheet "Acme Corp" (header row, the row
\* (Bomba X1, 2024-01-10, Filtro, Revision), the row (null, null, Correa,
\* null)) imported into an empty store leaves exactly one Client "Acme Corp",
\* one Equipment with serial "Bomba X1", brand "Bomba", model "X1" of that
\* client, and one Job of that equipment dated 2024-01-10 whose description is
\* the labor section, a blank line, then the parts section; the summary counts
\* one client, one equipment and one job created.
C10_AcmeScenario ==
    (/\ imp.phase = "done" /\ imp.response = "success"
     /\ imp.wb = "acme" /\ imp.fromEmpty /\ NoFaults(imp)) =>
        /\ Cardinality(clients) = 1 /\ Cardinality(equipments) = 1 /\ Cardinality(jobs) = 1
        /\ \E c \in clients, e \in equipments, j \in jobs :
              /\ c.nombre = "Acme Corp"
              /\ e.n_serie = "Bomba X1" /\ e.marca = "Bomba" /\ e.modelo = "X1"
              /\ e.client = c.id
              /\ j.equipment = e.id /\ j.date_done = <<2024, 1, 10>>
              /\ j.description = "MANO DE OBRA:\nRevision\n\nREPUESTOS:\nFiltro\nCorrea"
        /\ imp.summary.clients_created = 1
        /\ imp.summary.equipments_created = 1
        /\ imp.summary.jobs_created = 1
        /\ imp.summary.errors = << >>

\* the scenario's import has answered
C10_Witness ==
    /\ imp.phase = "done" /\ imp.response = "success"
    /\ imp.wb = "acme" /\ imp.fromEmpty /\ NoFaults(imp)
    /\ Len(imp.resolved) = 1 /\ jobs # {}
    /\ Workbooks.acme = << [name |-> "Acme Corp", rows |-> <<HeaderFull, RowFull, RowCont>>] >>

-----------------------------------------------------------------------------
(* Properties of the Job handlers (SpecJobs) *)

\* C3: every Job has next_service_date = date_done + next_service_days days
\* when next_service_days is set (the value 0 included), and a null
\* next_service_date when it is not set.
C3_NextServiceDateFollowsDays ==
    \A j \in jobs :
        IF IsNone(j.next_service_days)
        THEN IsNone(j.next_service_date)
        ELSE j.next_service_date = AddDays(j.date_done, j.next_service_days[1])

-----------------------------------------------------------------------------
(* Properties of the reconciler (SpecClean) *)

\* the Jobs of least id among those of their (equipment, date_done) key
KeptJobs(js) ==
    {j \in js : \A k \in js :
        (k.equipment = j.equipment /\ k.date_done = j.date_done) => j.id <= k.id}

\* C6: clean_duplicate_jobs leaves exactly the Job of least id of every
\* (equipment, date_done) key, so it deletes no Job whose key is unique;
\* it returns the number of Jobs it deleted, and afterwards no two Jobs share
\* a key.
C6_CleanKeepsLeastId ==
    [][lastOp'.op = "clean_duplicate_jobs" =>
          /\ jobs' = KeptJobs(jobs)
          /\ lastOp'.ret = Cardinality(jobs) - Cardinality(jobs')
          /\ NoDupJobs(jobs')]_vars

\* three Jobs with ids 1, 2, 3 shared one key: 2 and 3 were deleted, count 2
C6_Witness ==
    /\ lastOp = Op("clean_duplicate_jobs", 2)
    /\ Ids(jobs) = {1}

-----------------------------------------------------------------------------
(* Properties of the segmenter (SpecSeg) *)

\* the texts of one column in the rows from..to that have one, newline-joined
JoinedColumn(rows, from, to, Cell(_)) ==
    LET cells == [i \in 1..(to - from + 1) |-> Cell(rows[from + i - 1])]
        kept  == SelectSeq(cells, Truthy)
    IN  JoinStr([i \in 1..Len(kept) |-> kept[i][1]], "\n")

\* C7: continuation.  The parts text of a record is the parts texts of the row
\* that opened it and of the rows after it up to the next row that opens a
\* record, newline-joined in row order, and its labor text is the same of the
\* labor texts, each column on its own; this holds of the open record after
\* every row and of every emitted record.
C7_ContinuationAccumulates ==
    /\ (~IsNone(seg.st.current_work) /\ seg.open # 0) =>
          LET w == seg.st.current_work[1]
          IN  /\ w.repuestos = JoinedColumn(seg.rows, seg.open, seg.idx - 1, RowRepuestos)
              /\ w.mano_obra = JoinedColumn(seg.rows, seg.open, seg.idx - 1, RowManoObra)
    /\ Len(seg.meta) = Len(seg.st.data)
    /\ \A k \in 1..Len(seg.st.data) :
          LET m == seg.meta[k]
          IN  /\ seg.st.data[k].repuestos = JoinedColumn(seg.rows, m.open, m.upto, RowRepuestos)
              /\ seg.st.data[k].mano_obra = JoinedColumn(seg.rows, m.open, m.upto, RowManoObra)

\* a date row with parts "Filtro", then a row with no date and parts "Correa":
\* one record with parts "Filtro\nCorrea"
C7_Witness ==
    /\ seg.pc = "done"
    /\ Len(seg.st.data) = 1
    /\ seg.st.data[1].repuestos = "Filtro\nCorrea"
    /\ seg.meta[1].upto = seg.meta[1].open + 1

\* whether row i carries parts or labor text
HasText(i) == Truthy(RowRepuestos(seg.rows[i])) \/ Truthy(RowManoObra(seg.rows[i]))

\* whether row i, below the header, opens a record: its date parses and it or a
\* row above it names an equipment
OpensAt(i) ==
    /\ ~IsNone(RowFecha(seg.rows[i]))
    /\ \E h \in (seg.header_row[1] + 1)..i : Truthy(RowEquipo(seg.rows[h]))

\* the last row before the next one after i that opens a record
SpanEnd(i) ==
    LET later == {n \in (i + 1)..Len(seg.rows) : OpensAt(n)}
    IN  IF later = {} THEN Len(seg.rows) ELSE Min(later) - 1

\* the rows that opened the emitted records
EmittedOpens == {seg.meta[k].open : k \in 1..Len(seg.meta)}

\* C8 as stated: a record opened by a date row whose parts and labor cells
\* are both empty is never emitted, whatever rows follow it.
C8_EmptyDateRowNeverEmitted ==
    \A k \in 1..Len(seg.meta) : ~seg.meta[k].openEmpty

\* C8 amended: every emitted record has parts or labor text, and the record a
\* row opens is emitted exactly when that row or a row after it, before the
\* next row that opens a record, carries parts or labor text; so a record
\* opened by a content-free date row is emitted only when a continuation
\* row gave it text.
C8_EmittedIffContent ==
    /\ \A k \in 1..Len(seg.st.data) :
          seg.st.data[k].repuestos # "" \/ seg.st.data[k].mano_obra # ""
    /\ (seg.pc = "done" /\ ~IsNone(seg.header_row)) =>
          \A i \in (seg.header_row[1] + 1)..Len(seg.rows) :
              OpensAt(i) => (i \in EmittedOpens <=> \E n \in i..SpanEnd(i) : HasText(n))

\* one content-free date row opened a record that was dropped, a later one a
\* record that a continuation row filled and that was emitted
C8_Witness ==
    /\ seg.pc = "done" /\ ~IsNone(seg.header_row)
    /\ \E k \in 1..Len(seg.meta) : seg.meta[k].openEmpty
    /\ \E i \in (seg.header_row[1] + 1)..Len(seg.rows) :
          OpensAt(i) /\ ~HasText(i) /\ i \notin EmittedOpens

\* whether some cell of the row holds the word, in any case
RowHasWord(row, word) ==
    \E c \in 1..Len(row) : NotNa(row[c]) /\ Contains(Upper(CellStr(row[c])), word)

\* the rows of the sheet that qualify as header
HeaderRows ==
    {i \in 1..Len(seg.rows) :
        /\ RowHasWord(seg.rows[i], "EQUIPO")
        /\ RowHasWord(seg.rows[i], "FECHA") \/ RowHasWord(seg.rows[i], "MANO")}

\* C9: header detection.  The header row is the first row holding "EQUIPO" and
\* one of "FECHA", "MANO" (in any case); with no such row the sheet gives no
\* record, reads no row as data and adds no error to the summary; with one, only
\* rows below it are read as data.
C9_HeaderDetection ==
    seg.pc \in {"rows", "done"} =>
        LET qualifying == HeaderRows
        IN  IF qualifying = {}
            THEN /\ seg.pc = "done" /\ IsNone(seg.header_row)
                 /\ seg.st.data = << >> /\ seg.read = {}
                 /\ imp.summary.errors = << >>
            ELSE /\ seg.header_row = Some(Min(qualifying))
                 /\ \A i \in seg.read : i > Min(qualifying)

\* the header is the second row, below a row that holds "FECHA" alone, and the
\* rows below it were read
C9_Witness ==
    /\ seg.pc = "done" /\ seg.header_row = Some(2)
    /\ RowHasWord(seg.rows[1], "FECHA") /\ ~RowHasWord(seg.rows[1], "EQUIPO")
    /\ seg.read = 3..Len(seg.rows) /\ seg.read # {}
    /\ seg.st.data # << >>

-----------------------------------------------------------------------------
(* Properties of the import requests (SpecRequests) *)

\* whether the importer's error list holds the message of a workbook that
\* failed to load
ParseFailed(importer) ==
    \E m \in 1..Len(importer.summary.errors) :
        Contains(importer.summary.errors[m], "Error parseando Excel: ")

\* C11: workbook-level parse failure.  When the workbook cannot be loaded, in
\* the preview request as in the confirm request, parse_excel leaves one
\* message "Error parseando Excel: ..." with the text of the failure, the
\* request answers with one error (status 400) that carries that message and
\* no summary of counts, and no Client, Equipment or Job is added or changed.
C11_ParseFailureIsTerminal ==
    [][(lastOp'.op \in {"import_excel_process", "import_excel_confirm"} /\ ParseFailed(imp')) =>
          /\ imp'.response = "parse_error"
          /\ imp'.summary.errors = <<"Error parseando Excel: " \o LoadError>>
          /\ Responses[imp'.response].error /\ Responses[imp'.response].details
          /\ Responses[imp'.response].summary = "none"
          /\ lastOp'.ret = 400
          /\ imp'.parsed_data = << >>
          /\ clients' = clients /\ equipments' = equipments /\ jobs' = jobs]_vars

\* the confirm request failed to load the workbook of the session, on a store
\* that an earlier import filled
C11_Witness ==
    /\ lastOp = Op("import_excel_confirm", 400) /\ imp.response = "parse_error"
    /\ ParseFailed(imp)
    /\ ~IsNone(session) /\ clients # {} /\ jobs # {}

\* C12: every import outcome other than a workbook-level parse failure (an
\* empty record list and batches with failing records included) gives the
\* caller the import summary, four counts and the error list, not an error.
C12_SummaryAlwaysReturned ==
    (imp.phase = "done" /\ imp.response \in {"success", "no_data", "import_error"}) =>
        /\ Responses[imp.response].summary = "import"
        /\ ~Responses[imp.response].error

-----------------------------------------------------------------------------
(* Properties of concurrent import runs (SpecConc) *)

DupClients == \E a \in clients, b \in clients : a.nombre = b.nombre /\ a.id # b.id

DupEquipments == \E a \in equipments, b \in equipments : a.n_serie = b.n_serie /\ a.id # b.id

\* C13: concurrent imports are not safe.  Two Clients of one name, two
\* Equipment of one serial or two Jobs of one (equipment, date_done) pair come
\* to exist in a store that had none only through a race: some step of one run
\* was taken while the other run stood between a lookup that missed and the
\* create that follows it.  Runs that execute one after the other never
\* produce any of them; interleaved runs do (the witness).
C13_DuplicatesOnlyByRace ==
    (DupClients \/ DupEquipments \/ ~NoDupJobs(jobs)) => conc.raced

\* both runs are through, after a race, and left two Clients of one name, two
\* Equipment of one serial and two Jobs of one pair
C13_Witness ==
    /\ \A p \in Runners : conc.runs[p].pc = "done"
    /\ conc.raced
    /\ DupClients /\ DupEquipments /\ ~NoDupJobs(jobs)

-----------------------------------------------------------------------------
(* Further properties of the segmenter (SpecSeg) *)

\* the five fields a record has from the time it is opened
WorkFields(w) ==
    [client |-> w.client, equipment |-> w.equipment, date |-> w.date,
     repuestos |-> w.repuestos, mano_obra |-> w.mano_obra]

\* the row the loop is about to read, and the equipment label current once
\* the row's own label, if it has one, is taken
RowAtIdx == seg.rows[seg.idx]

LabelAtIdx ==
    IF Truthy(RowEquipo(RowAtIdx)) THEN RowEquipo(RowAtIdx) ELSE seg.st.current_equipment

\* the text of an optional cell value, empty when absent
TextOf(o) == IF IsNone(o) THEN "" ELSE o[1]

\* C14: segmenter date row.  A row whose date parses, read while an equipment
\* label is current (its own or one from above), opens a record with the
\* sheet's name, that label, that date and the row's parts and labor text
\* (empty when absent); the record open before it is appended to the output
\* first if it has parts or labor text and dropped otherwise; so the records
\* are emitted in the order of the rows that opened them.
C14_DateRowOpensRecord ==
    [][(lastOp'.op = "row" /\ ~IsNone(RowFecha(RowAtIdx)) /\ Truthy(LabelAtIdx)) =>
          /\ seg'.st.current_work =
                Some([client    |-> seg.name,
                      equipment |-> LabelAtIdx[1],
                      date      |-> RowFecha(RowAtIdx),
                      repuestos |-> TextOf(RowRepuestos(RowAtIdx)),
                      mano_obra |-> TextOf(RowManoObra(RowAtIdx))])
          /\ LET old == seg.st.current_work
             IN  IF ~IsNone(old) /\ (old[1].repuestos # "" \/ old[1].mano_obra # "")
                 THEN /\ Len(seg'.st.data) = Len(seg.st.data) + 1
                      /\ SubSeq(seg'.st.data, 1, Len(seg.st.data)) = seg.st.data
                      /\ WorkFields(seg'.st.data[Len(seg'.st.data)]) = old[1]
                 ELSE seg'.st.data = seg.st.data
          /\ \A k \in 1..Len(seg'.meta), l \in 1..Len(seg'.meta) :
                k < l => seg'.meta[k].open < seg'.meta[l].open]_vars

\* a third date row was read: the records the first two opened are in the
\* output in that order and the third is open
C14_Witness ==
    /\ lastOp.op = "row"
    /\ Len(seg.st.data) = 2 /\ seg.meta[1].open < seg.meta[2].open
    /\ seg.open > seg.meta[2].open /\ seg.idx = seg.open + 1
    /\ ~IsNone(seg.st.current_work)
    /\ seg.st.current_work[1].repuestos = "" /\ seg.st.current_work[1].mano_obra # ""

\* the description of a record with the given parts and labor text
DescriptionOf(repuestos, mano_obra) ==
    IF mano_obra # "" /\ repuestos # ""
    THEN "MANO DE OBRA:\n" \o mano_obra \o "\n\n" \o "REPUESTOS:\n" \o repuestos
    ELSE IF mano_obra # "" THEN "MANO DE OBRA:\n" \o mano_obra
    ELSE IF repuestos # "" THEN "REPUESTOS:\n" \o repuestos
    ELSE ""

\* what C15 asks of an emitted record
WellFormed(r) ==
    /\ r.client = seg.name
    /\ r.equipment # ""
    /\ r.date # None /\ ValidDate(r.date[1], r.date[2], r.date[3])
    /\ r.repuestos # "" \/ r.mano_obra # ""
    /\ r.description = DescriptionOf(r.repuestos, r.mano_obra)

\* C15: every record the segmenter emits has the sheet name as client, an
\* equipment label, a date, parts or labor text, and the description built
\* from the parts and labor text it ends with; after the last row the record
\* still open is emitted exactly when it has parts or labor text.
C15_EmittedRecordsWellFormed ==
    [][/\ \A k \in 1..Len(seg'.st.data) : WellFormed(seg'.st.data[k])
       /\ lastOp'.op = "return" =>
             LET old == seg.st.current_work
             IN  IF ~IsNone(old) /\ (old[1].repuestos # "" \/ old[1].mano_obra # "")
                 THEN /\ Len(seg'.st.data) = Len(seg.st.data) + 1
                      /\ SubSeq(seg'.st.data, 1, Len(seg.st.data)) = seg.st.data
                      /\ WorkFields(seg'.st.data[Len(seg'.st.data)]) = old[1]
                 ELSE seg'.st.data = seg.st.data]_vars

\* the sheet ended with a record open that continuation rows had filled: it
\* was emitted last, after an earlier one
C15_Witness ==
    /\ seg.pc = "done" /\ lastOp.op = "return"
    /\ Len(seg.st.data) = 2
    /\ seg.meta[2].upto = Len(seg.rows) /\ seg.meta[2].upto > seg.meta[2].open
    /\ seg.st.data[2].description = "MANO DE OBRA:\nAjuste\n\nREPUESTOS:\nJunta"

\* the last equipment label in the rows below the header down to row i
\* (None when there is none)
LabelAbove(i) ==
    LET labelled == {h \in (seg.header_row[1] + 1)..i : Truthy(RowEquipo(seg.rows[h]))}
    IN  IF labelled = {} THEN None ELSE RowEquipo(seg.rows[Max(labelled)])

\* C16: equipment label persistence.  The equipment of every record, emitted
\* or open, is the last label in the rows down to the row that opened it; a
\* row with a label and no parsed date makes that label the current one for
\* the date rows after it, while the open record keeps its own label and
\* takes the row's parts and labor text.
C16_LabelPersists ==
    [][/\ \A k \in 1..Len(seg'.st.data) :
             Some(seg'.st.data[k].equipment) = LabelAbove(seg'.meta[k].open)
       /\ (~IsNone(seg'.st.current_work) /\ seg'.open # 0) =>
             Some(seg'.st.current_work[1].equipment) = LabelAbove(seg'.open)
       /\ (lastOp'.op = "row" /\ Truthy(RowEquipo(RowAtIdx)) /\ IsNone(RowFecha(RowAtIdx))) =>
             /\ seg'.st.current_equipment = RowEquipo(RowAtIdx)
             /\ seg'.st.data = seg.st.data
             /\ IsNone(seg.st.current_work) => IsNone(seg'.st.current_work)
             /\ ~IsNone(seg.st.current_work) =>
                   LET old == seg.st.current_work[1]
                       new == seg'.st.current_work[1]
                   IN  /\ new.equipment = old.equipment /\ new.date = old.date
                       /\ new.repuestos = JoinStr(SelectSeq(
                              <<old.repuestos, TextOf(RowRepuestos(RowAtIdx))>>,
                              LAMBDA t : t # ""), "\n")
                       /\ new.mano_obra = JoinStr(SelectSeq(
                              <<old.mano_obra, TextOf(RowManoObra(RowAtIdx))>>,
                              LAMBDA t : t # ""), "\n")]_vars

\* a row with the label "Motor", no date and labor text followed the row that
\* opened a record for "Bomba X1": that record took the text and kept its
\* label, and the next date row opened a record for "Motor"
C16_Witness ==
    /\ seg.pc = "done"
    /\ Len(seg.st.data) = 2
    /\ seg.st.data[1].equipment = "Bomba X1" /\ seg.st.data[1].mano_obra = "Revision\nAjuste"
    /\ seg.st.data[2].equipment = "Motor"
    /\ seg.meta[2].open = seg.meta[1].open + 2
    /\ IsNone(RowEquipo(seg.rows[seg.meta[2].open]))

\* whether the row about to be read has a date cell that does not parse
DateCellUnparsed ==
    /\ Len(RowAtIdx) > 1 /\ NotNa(RowAtIdx[2])
    /\ IsNone(RowFecha(RowAtIdx))

\* the text a record has once a row's text is added on a new line
Appended(old, o) ==
    IF IsNone(o) THEN old ELSE IF old = "" THEN o[1] ELSE old \o "\n" \o o[1]

\* C19: a row whose date cell is present but does not parse is handled as a
\* row with no date: with a record open, its parts and labor text are appended
\* to that record, which keeps its date; with none open the row adds nothing
\* to any record; no record is emitted and no error is reported either way.
C19_UnparsedDateIsContinuation ==
    [][(lastOp'.op = "row" /\ DateCellUnparsed) =>
          /\ seg'.st.data = seg.st.data
          /\ imp'.summary.errors = imp.summary.errors
          /\ IsNone(seg.st.current_work) => IsNone(seg'.st.current_work)
          /\ ~IsNone(seg.st.current_work) =>
                LET old == seg.st.current_work[1]
                    new == seg'.st.current_work[1]
                IN  /\ new.date = old.date /\ new.equipment = old.equipment
                    /\ new.repuestos = Appended(old.repuestos, RowRepuestos(RowAtIdx))
                    /\ new.mano_obra = Appended(old.mano_obra, RowManoObra(RowAtIdx))]_vars

\* the row ("10-2024", Junta, Ajuste) followed the row that opened a record:
\* the record holds both texts of both rows, under the date of the first
C19_Witness ==
    /\ seg.pc = "done"
    /\ Len(seg.st.data) = 1
    /\ seg.st.data[1].repuestos = "Filtro\nJunta"
    /\ seg.st.data[1].mano_obra = "Revision\nAjuste"
    /\ seg.st.data[1].date = <<2024, 1, 10>>
    /\ seg.rows[seg.meta[1].upto][2] = StrCell("10-2024")

-----------------------------------------------------------------------------
(* Properties of the helpers called directly (SpecCalls) *)

Returned(f) == call.pc = "returned" /\ call.f = f

\* C17: description synthesis.  For every parts and labor text the description
\* is the labor section ("MANO DE OBRA:" and the labor text on the next line)
\* then the parts section ("REPUESTOS:" and the parts text on the next line)
\* with one blank line between them; a section whose text is empty is left
\* out, and the labor section comes first.
C17_DescriptionSynthesis ==
    Returned("_build_description") =>
        LET labor == "MANO DE OBRA:\n" \o call.b
            parts == "REPUESTOS:\n" \o call.a
        IN  call.out_s = IF call.a # "" /\ call.b # "" THEN labor \o "\n\n" \o parts
                         ELSE IF call.b # "" THEN labor
                         ELSE IF call.a # "" THEN parts
                         ELSE ""

\* both sections, the parts running over two lines
C17_Witness ==
    /\ Returned("_build_description")
    /\ call.a = "Filtro\nCorrea" /\ call.b = "Revision"
    /\ call.out_s = "MANO DE OBRA:\nRevision\n\nREPUESTOS:\nFiltro\nCorrea"

\* what datetime.strptime gives for the date texts, format by format
ExpectedDate ==
    [ t \in DateTexts |->
        CASE t = "2024-01-10"          -> <<2024, 1, 10>>
          [] t = " 2024-02-01 "        -> <<2024, 2, 1>>
          [] t = "01/02/2024"          -> <<2024, 2, 1>>
          [] t = "13/02/2024"          -> <<2024, 2, 13>>
          [] t = "02/13/2024"          -> <<2024, 2, 13>>
          [] t = "12/31/2024"          -> <<2024, 12, 31>>
          [] t = "29/02/2024"          -> <<2024, 2, 29>>
          [] t = "2024-01-10 08:30:00" -> <<2024, 1, 10>>
          [] OTHER                     -> None ]

\* C18: parse_date on a text tries YYYY-MM-DD, DD/MM/YYYY, MM/DD/YYYY and
\* YYYY-MM-DD HH:MM:SS in that order and returns the date of the first that
\* parses: a slash date valid both ways is read day/month (01/02/2024 is
\* 1 February 2024), one valid only as month/day is read month/day, and a text
\* that matches no format gives null.
C18_FirstFormatWins ==
    Returned("_parse_date") => call.out_d = ExpectedDate[call.a]

\* the ambiguous slash date was read day first
C18_Witness ==
    /\ Returned("_parse_date")
    /\ call.a = "01/02/2024" /\ call.out_d = <<2024, 2, 1>>

\* what the resolver did for the name n it looked up, given the table before
\* the call: a blank n gives no client; a Client named n is returned and
\* nothing is created; otherwise one Client named n is created and counted
ResolvedAs(n) ==
    LET same == {c \in call.cs : c.nombre = n}
    IN  IF Strip(call.a) = ""
        THEN call.out_n = 0 /\ clients = call.cs /\ call.count = 0
        ELSE IF same # {}
        THEN /\ call.out_n \in {c.id : c \in same}
             /\ clients = call.cs /\ call.count = 0
        ELSE /\ Cardinality(clients) = Cardinality(call.cs) + 1
             /\ call.cs \subseteq clients
             /\ \E c \in clients \ call.cs :
                    c.id = call.out_n /\ c.nombre = n /\ c.notes = AutoNote
             /\ call.count = 1

\* C20 as stated: the name is looked up and created exactly as given
C20_ExactNameAsGiven ==
    Returned("_create_or_get_client") => ResolvedAs(call.a)

\* C20: resolve_client.  For a name that is not null or blank, and with the
\* name taken without its surrounding whitespace: it returns an existing
\* Client of that name when there is one, creating nothing; otherwise it
\* creates exactly one Client of that name, with the import note, and adds one
\* to clients_created.  For a null or blank name, and whenever the storage
\* call raises, it returns no client, creates nothing and changes no count.
C20_ResolveClient ==
    Returned("_create_or_get_client") =>
        IF call.failed
        THEN call.out_n = 0 /\ clients = call.cs /\ call.count = 0
        ELSE ResolvedAs(Strip(call.a))

\* a name with blanks around it resolved to the existing Client, and the
\* same name created a Client without the blanks in an empty table
C20_Witness ==
    /\ Returned("_create_or_get_client")
    /\ call.a = " Acme Corp " /\ ~call.failed
    /\ \/ call.cs # {} /\ call.out_n # 0 /\ clients = call.cs
       \/ call.cs = {} /\ call.count = 1 /\ \E c \in clients : c.nombre = "Acme Corp"

-----------------------------------------------------------------------------
(* Properties of the resolvers and the materializer inside a batch *)

\* the record that the step of the record loop being taken handles, and the
\* storage call that raises in it
StepRecord == imp.parsed_data[imp.k]

StepFault == imp'.faults[imp.k]

\* the Equipment the step resolved the record to (0: none)
StepEquipment == imp'.resolved[imp.k]

\* the Equipment whose serial is the label of that record, before the step
SerialHits == {e \in equipments : e.n_serie = StepRecord.equipment}

\* the Clients that carry the record's sheet name after the step
SheetClients ==
    IF StepFault = "client" THEN {}
    ELSE {c.id : c \in {x \in clients' : x.nombre = Strip(StepRecord.client)}}

ExpectedTokens ==
    [ label \in {"Bomba X1", "Motor", "Grupo  E  3"} |->
        CASE label = "Bomba X1"    -> <<"Bomba", "X1">>
          [] label = "Motor"       -> <<"Motor", "Sin especificar">>
          [] label = "Grupo  E  3" -> <<"Grupo", "E 3">> ]

\* C22: resolve_equipment on a serial miss creates exactly one Equipment whose
\* serial is the full label, whose brand is the label's first
\* whitespace-delimited token and whose model is the remaining tokens joined by
\* single spaces ("Sin especificar" when the label has one token), linked to
\* the client the record's sheet name resolved to (to none when it resolved to
\* none), and adds one to equipments_created.
C22_SerialMissCreatesEquipment ==
    [][(lastOp'.op = "import_record" /\ SerialHits = {} /\ StepFault # "equipment") =>
          /\ equipments \subseteq equipments'
          /\ Cardinality(equipments') = Cardinality(equipments) + 1
          /\ \A e \in equipments' \ equipments :
                /\ e.id \notin Ids(equipments)
                /\ e.n_serie = StepRecord.equipment
                /\ e.marca = ExpectedTokens[StepRecord.equipment][1]
                /\ e.modelo = ExpectedTokens[StepRecord.equipment][2]
                /\ IF SheetClients = {} THEN e.client = 0 ELSE e.client \in SheetClients
          /\ imp'.summary.equipments_created = imp.summary.equipments_created + 1
          /\ imp'.summary.equipments_updated = imp.summary.equipments_updated
          /\ imp'.resolved[imp.k] \in Ids(equipments') \ Ids(equipments)
      ]_vars

\* labels of three, two and one token were created in the store
C22_Witness ==
    /\ \E e \in equipments : e.n_serie = "Grupo  E  3" /\ e.modelo = "E 3" /\ e.client # 0
    /\ \E e \in equipments : e.n_serie = "Motor" /\ e.modelo = "Sin especificar"
    /\ \E e \in equipments : e.n_serie = "Bomba X1" /\ e.marca = "Bomba"

\* the Jobs stored for that Equipment on the record's date, before the step
KeyJobs == {j \in jobs : j.equipment = StepEquipment /\ j.date_done = StepRecord.date}

C23_SameDescription ==
    /\ lastOp.op = "import_record" /\ imp.k = 2 /\ imp.wb = "acme"
    /\ imp.summary.jobs_created = 0 /\ ~imp.created[1]
    /\ \E j \in jobs : j.description = imp.parsed_data[1].description
                        /\ j.notes = Some("Importado desde Excel - Cliente: Acme Corp")

\* C24: the Job materializer when no Job exists for the (equipment, date).
\* Exactly one Job is created, for that equipment and date, with the record's
\* description, amount 0 and next_service_days and next_service_date null, and
\* jobs_created grows by exactly one.  A batch starts with jobs_created = 0
\* and every record step adds as much to jobs_created as Jobs to the store, so
\* at the end of a batch jobs_created is the number of Jobs the batch added
\* (all the Jobs of the store when the batch found it empty).
C24_NewJobIsCreatedAndCounted ==
    [][/\ (lastOp'.op = "import_record" /\ StepEquipment # 0 /\ StepFault # "job"
               /\ KeyJobs = {}) =>
             /\ jobs \subseteq jobs'
             /\ Cardinality(jobs') = Cardinality(jobs) + 1
             /\ \A j \in jobs' \ jobs :
                   /\ j.id \notin Ids(jobs)
                   /\ j.equipment = StepEquipment
                   /\ j.date_done = StepRecord.date
                   /\ j.description = StepRecord.description
                   /\ j.budget = 0
                   /\ j.next_service_days = None
                   /\ j.next_service_date = None
             /\ imp'.summary.jobs_created = imp.summary.jobs_created + 1
       /\ lastOp'.op = "import_begin" =>
             imp'.summary.jobs_created = 0 /\ jobs' = jobs
       /\ lastOp'.op = "import_record" =>
             imp'.summary.jobs_created - imp.summary.jobs_created
                 = Cardinality(jobs') - Cardinality(jobs)
       /\ (lastOp'.op = "import_excel_confirm" /\ imp'.response = "success") =>
             /\ jobs' = jobs
             /\ imp'.summary.jobs_created = imp.summary.jobs_created
             /\ imp.fromEmpty => imp.summary.jobs_created = Cardinality(jobs)
      ]_vars

\* a batch of two records on an empty store ended with one Job created, the
\* second record having found the Job of the first
C24_Witness ==
    /\ imp.phase = "done" /\ imp.response = "success" /\ imp.fromEmpty
    /\ Len(imp.parsed_data) = 2 /\ NoFaults(imp)
    /\ imp.summary.jobs_created = 1 /\ Cardinality(jobs) = 1
    /\ \A j \in jobs : j.budget = 0 /\ j.next_service_days = None

\* the rows of a table that a step left exactly as they were
Kept(table, table2) == table \subseteq table2

\* C25: the import has no overall transaction.  No step of a batch removes a
\* Client, an Equipment or a Job or undoes what an earlier record wrote, and
\* when the handling of record k fails, what was written for it before the
\* failure stays: the Client of its sheet when the equipment call raises, and
\* that Client and the Equipment of its label (created, or found and linked),
\* with their counts, when the job call raises.  Nothing else changes in the
\* failing step.
C25_NoOverallTransaction ==
    [][lastOp'.op \in ImportOps =>
          /\ Kept(clients, clients')
          /\ Ids(equipments) \subseteq Ids(equipments')
          /\ Ids(jobs) \subseteq Ids(jobs')
          /\ lastOp'.op # "import_record" =>
                clients' = clients /\ equipments' = equipments /\ jobs' = jobs
          /\ (lastOp'.op = "import_record" /\ StepFault \in {"equipment", "job"}) =>
                /\ jobs' = jobs
                /\ Strip(StepRecord.client) # "" => SheetClients # {}
                /\ imp'.summary.clients_created - imp.summary.clients_created
                       = Cardinality(clients') - Cardinality(clients)
                /\ StepFault = "equipment" => equipments' = equipments
                /\ StepFault = "job" =>
                      /\ Kept(equipments \ SerialHits, equipments')
                      /\ \E e \in equipments' :
                            /\ e.id = StepEquipment
                            /\ e.n_serie = StepRecord.equipment
                            /\ SheetClients # {} => e.client # 0
                      /\ imp'.summary.equipments_created - imp.summary.equipments_created
                             = Cardinality(equipments') - Cardinality(equipments)
      ]_vars

\* a batch ended in which the job call raised for a record whose Client and
\* Equipment had just been created: both are stored, and counted, with no Job
C25_Witness ==
    /\ imp.phase = "done" /\ imp.response = "success" /\ imp.fromEmpty
    /\ imp.faults = <<"job">>
    /\ imp.summary.clients_created = 1 /\ imp.summary.equipments_created = 1
    /\ Cardinality(clients) = 1 /\ Cardinality(equipments) = 1 /\ jobs = {}
    /\ \A e \in equipments : e.client # 0

-----------------------------------------------------------------------------
(* Properties of the upload handshake (SpecRequests) *)

StoreUnchanged == clients' = clients /\ equipments' = equipments /\ jobs' = jobs

\* the request that just ended cleared the pending file
Cleared ==
    \/ lastOp.op = "import_excel_cancel"
    \/ lastOp.op = "import_excel_confirm" /\ lastOp.ret = 200

\* C26: the two-phase upload handshake.  The session holds a pending file
\* exactly from a successful import_excel_process until the next successful
\* confirm or cancel: only such a process call sets it and only those two
\* clear it.  import_excel_confirm enters the record loop, and so writes
\* Clients, Equipment or Jobs, only while a file is pending; issued right
\* after a successful confirm or a cancel it is rejected with 400 and changes
\* nothing; and import_excel_process never writes to the entity store.
C26_UploadHandshake ==
    [][/\ ~StoreUnchanged => lastOp'.op = "import_record"
       /\ lastOp'.op \in {"import_begin", "import_record"} => ~IsNone(session)
       /\ (session' # session /\ ~IsNone(session')) =>
              lastOp' = Op("import_excel_process", 200)
       /\ lastOp' = Op("import_excel_process", 200) => session' = Some(imp'.wb)
       /\ (session' # session /\ IsNone(session')) =>
              \/ lastOp'.op = "import_excel_cancel"
              \/ lastOp' = Op("import_excel_confirm", 200)
       /\ (lastOp'.op = "import_excel_cancel" \/ lastOp' = Op("import_excel_confirm", 200)) =>
              IsNone(session')
       /\ (Cleared /\ lastOp'.op \in {"import_begin", "import_excel_confirm"}) =>
              /\ lastOp' = Op("import_excel_confirm", 400)
              /\ imp'.response = "no_file"
              /\ StoreUnchanged /\ session' = session
       /\ lastOp'.op = "import_excel_process" => StoreUnchanged
      ]_vars

\* after an import that filled the store, a confirm found no pending file
C26_Witness ==
    /\ lastOp = Op("import_excel_confirm", 400) /\ imp.response = "no_file"
    /\ IsNone(session) /\ jobs # {}

-----------------------------------------------------------------------------
(* Text conservation in the segmenter (SpecSeg) *)

\* the rows below the header that open a record and whose span, up to the row
\* before the next one that opens a record, carries parts or labor text
TextOpens ==
    IF IsNone(seg.header_row) THEN {}
    ELSE {i \in (seg.header_row[1] + 1)..Len(seg.rows) :
             OpensAt(i) /\ \E n \in i..SpanEnd(i) : HasText(n)}

\* C27: text conservation.  When a sheet has been read, its records are, in
\* row order, one per record-opening row whose span carries text, and the
\* parts (labor) text of each is the non-null parts (labor) cells of the rows
\* of its span, in row order and newline-joined.  A span runs from a
\* record-opening row to the row before the next one, so the spans are
\* disjoint and cover every row from the first record-opening row on: every
\* such cell is in exactly one record, the one opened by the nearest
\* record-opening row at or above it, and the text of rows above the first
\* record-opening row is in no record.
C27_TextConservation ==
    seg.pc = "done" =>
        LET opens == TextOpens
            \* the k-th of them from the top of the sheet
            nth   == [k \in 1..Cardinality(opens) |->
                         CHOOSE i \in opens : Cardinality({n \in opens : n < i}) = k - 1]
        IN  /\ Len(seg.st.data) = Cardinality(opens)
            /\ \A k \in 1..Len(seg.st.data) :
                  LET upto == SpanEnd(nth[k])
                  IN  /\ seg.st.data[k].repuestos =
                             JoinedColumn(seg.rows, nth[k], upto, RowRepuestos)
                      /\ seg.st.data[k].mano_obra =
                             JoinedColumn(seg.rows, nth[k], upto, RowManoObra)

\* a sheet whose first data row has text and no date, so that its text is in
\* no record, and whose last record took the text of a row after it
C27_Witness ==
    /\ seg.pc = "done" /\ ~IsNone(seg.header_row)
    /\ seg.header_row[1] + 3 = Len(seg.rows)
    /\ HasText(seg.header_row[1] + 1) /\ ~OpensAt(seg.header_row[1] + 1)
    /\ OpensAt(seg.header_row[1] + 2)
    /\ HasText(Len(seg.rows)) /\ ~OpensAt(Len(seg.rows))
    /\ Len(seg.st.data) = 1

-----------------------------------------------------------------------------
(* Summary accounting and the client link (Spec, SpecLabels) *)

EquipmentsCounted(summary) == summary.equipments_created + summary.equipments_updated

\* C28: summary accounting.  A record step in which no storage call raises
\* adds one to exactly one of equipments_created (serial miss) and
\* equipments_updated (serial hit, whether or not the Equipment changed), so
\* in a batch without failures equipments_created + equipments_updated is the
\* number of records handled; jobs_created never exceeds that sum, and in
\* every batch the sum never exceeds the number of records handled, which
\* never exceeds the number of records.
C28_SummaryAccounting ==
    [][lastOp'.op \in ImportOps =>
          /\ (lastOp'.op = "import_record" /\ StepFault = "none") =>
                /\ imp'.summary.equipments_created = imp.summary.equipments_created
                       + (IF SerialHits = {} THEN 1 ELSE 0)
                /\ imp'.summary.equipments_updated = imp.summary.equipments_updated
                       + (IF SerialHits = {} THEN 0 ELSE 1)
          /\ NoFaults(imp') => EquipmentsCounted(imp'.summary) = Len(imp'.resolved)
          /\ imp'.summary.jobs_created <= EquipmentsCounted(imp'.summary)
          /\ EquipmentsCounted(imp'.summary) <= Len(imp'.resolved)
          /\ Len(imp'.resolved) <= Len(imp'.parsed_data)
      ]_vars

\* a batch without failures ended with two Equipment created and one found
\* again, already linked to its client and so not changed
C28_Witness ==
    /\ imp.phase = "done" /\ imp.response = "success" /\ NoFaults(imp) /\ imp.fromEmpty
    /\ imp.created = <<TRUE, TRUE, FALSE>>
    /\ imp.summary.equipments_created = 2 /\ imp.summary.equipments_updated = 1
    /\ imp.summary.jobs_created = 3

\* the Equipment found for the record's label, when it is linked to a client
\* other than the one the sheet names, before the step
LinkedElsewhere ==
    {e \in SerialHits : /\ e.id = StepEquipment /\ e.client # 0
                        /\ Row(clients, e.client).nombre # Strip(StepRecord.client)}

\* C29: the import never changes the client link of an Equipment that has one.
\* When a record's sheet names another client than the one the Equipment of
\* its label is linked to, the Equipment stays as it was, owner name included,
\* the record's Job is attached to that Equipment, and the sheet's client is
\* still looked up, or created and counted in clients_created when no Client
\* has its name.
C29_LinkedEquipmentKeepsClient ==
    [][(lastOp'.op = "import_record" /\ StepFault = "none" /\ LinkedElsewhere # {}) =>
          /\ equipments' = equipments
          /\ StepEquipment \in {e.id : e \in LinkedElsewhere}
          /\ \E j \in jobs' : j.equipment = StepEquipment /\ j.date_done = StepRecord.date
                               /\ j.description = StepRecord.description
          /\ \E c \in clients' : c.nombre = Strip(StepRecord.client)
          /\ IF \E c \in clients : c.nombre = Strip(StepRecord.client)
             THEN /\ clients' = clients
                  /\ imp'.summary.clients_created = imp.summary.clients_created
             ELSE /\ Cardinality(clients') = Cardinality(clients) + 1
                  /\ clients \subseteq clients'
                  /\ imp'.summary.clients_created = imp.summary.clients_created + 1
      ]_vars

\* the first record of a sheet "Gamma" found its Equipment linked to
\* "Acme Corp": the Client "Gamma" was created and counted, and the Equipment
\* kept its client and owner
C29_Witness ==
    /\ lastOp.op = "import_record" /\ imp.k = 2 /\ imp.faults = <<"none">>
    /\ imp.parsed_data[1].client = "Gamma"
    /\ imp.summary.clients_created = 1 /\ imp.summary.equipments_updated = 1
    /\ \E e \in equipments :
          /\ e.id = imp.resolved[1] /\ e.propietario = Some("Acme Corp")
          /\ Row(clients, e.client).nombre = "Acme Corp"
          /\ \E j \in jobs : j.equipment = e.id /\ j.date_done = imp.parsed_data[1].date

-----------------------------------------------------------------------------
(* The reconciler called again (SpecClean) *)

\* C30: clean_duplicate_jobs is idempotent and touches only Jobs.  No call
\* creates, modifies or deletes a Client or an Equipment, creates a Job or
\* modifies a Job it keeps; what a call leaves has nothing for a further call
\* to delete, and a call right after another deletes nothing, returns 0 and
\* leaves the Jobs as the first call left them.
C30_CleanIsIdempotent ==
    [][lastOp'.op = "clean_duplicate_jobs" =>
          /\ clients' = clients /\ equipments' = equipments
          /\ jobs' \subseteq jobs
          /\ KeptJobs(jobs') = jobs'
          /\ lastOp.op = "clean_duplicate_jobs" => (lastOp'.ret = 0 /\ jobs' = jobs)
      ]_vars

\* a call deleted the Job of id 2, and the call after it returned 0
C30_Witness ==
    /\ lastOp = Op("clean_duplicate_jobs", 0)
    /\ Ids(jobs) = {1, 3}
    /\ equipments # {}
=============================================================================
